---- MODULE Spec2Model ----
(***************************************************************************)
(* Token / marketplace indexer (crates/indexer): the event decoder, the    *)
(* three derived-table builders (token activities, current marketplace     *)
(* listings, collection/token volumes), the per-batch deduplication in     *)
(* process_transactions and the transactional upserts of insert_to_db.     *)
(*                                                                         *)
(* The chain is a fixed total order of transactions; a call of             *)
(* process_transactions receives a contiguous version range of it.         *)
(***************************************************************************)
EXTENDS Integers, Sequences, FiniteSets, TLC

(* ------------------------------ bounds --------------------------------- *)
MaxVersion == 2
MaxCalls == 2

(* --------------------------- Option<T> --------------------------------- *)
None == <<>>
Some(x) == <<x>>
IsSome(o) == o # <<>>
unwrap_or(o, d) == IF o = <<>> THEN d ELSE o[1]

(* ----------------------------- strings --------------------------------- *)
\* The NUL character (U+0000) is written "~" in string values of the model.
NUL == "~"

\* Substring search, position by position.
scan_contains(s, sub) ==
    \E i \in 1..(Len(s) - Len(sub) + 1) : SubSeq(s, i, i + Len(sub) - 1) = sub

\* The type tags of the decode dispatch table of TokenEvent::from_event, one
\* undecoded type, and the module addresses they start with.
TagStrings ==
    {"0x3::token::MintTokenEvent",
     "0x3::token::BurnTokenEvent",
     "0x3::token::MutateTokenPropertyMapEvent",
     "0x3::token::WithdrawEvent",
     "0x3::token::DepositEvent",
     "0x3::token_transfers::TokenOfferEvent",
     "0x3::token_transfers::TokenCancelOfferEvent",
     "0x3::token_transfers::TokenClaimEvent",
     "0xd1fd99c1944b84d1670a2536417e997864ad12303d19eac725891691b04d614e::marketplaceV2::AuctionEvent",
     "0xd1fd99c1944b84d1670a2536417e997864ad12303d19eac725891691b04d614e::marketplaceV2::BidEvent",
     "0xd1fd99c1944b84d1670a2536417e997864ad12303d19eac725891691b04d614e::marketplaceV2::BuyEvent",
     "0xd1fd99c1944b84d1670a2536417e997864ad12303d19eac725891691b04d614e::marketplaceV2::ChangePriceEvent",
     "0xd1fd99c1944b84d1670a2536417e997864ad12303d19eac725891691b04d614e::marketplaceV2::ClaimCoinsEvent",
     "0xd1fd99c1944b84d1670a2536417e997864ad12303d19eac725891691b04d614e::marketplaceV2::ClaimTokenEvent",
     "0xd1fd99c1944b84d1670a2536417e997864ad12303d19eac725891691b04d614e::marketplaceV2::DelistEvent",
     "0xd1fd99c1944b84d1670a2536417e997864ad12303d19eac725891691b04d614e::marketplaceV2::ListEvent",
     "0x2c7bccf7b31baf770fdbcc768d9e9cb3d87805e255355df5db32ac9a669010a2::events::BidEvent",
     "0x2c7bccf7b31baf770fdbcc768d9e9cb3d87805e255355df5db32ac9a669010a2::events::BuyEvent",
     "0x2c7bccf7b31baf770fdbcc768d9e9cb3d87805e255355df5db32ac9a669010a2::events::CancelBidEvent",
     "0x2c7bccf7b31baf770fdbcc768d9e9cb3d87805e255355df5db32ac9a669010a2::events::CancelCollectionBidEvent",
     "0x2c7bccf7b31baf770fdbcc768d9e9cb3d87805e255355df5db32ac9a669010a2::events::ClaimEvent",
     "0x2c7bccf7b31baf770fdbcc768d9e9cb3d87805e255355df5db32ac9a669010a2::events::CollectionBidEvent",
     "0x2c7bccf7b31baf770fdbcc768d9e9cb3d87805e255355df5db32ac9a669010a2::events::DelistEvent",
     "0x2c7bccf7b31baf770fdbcc768d9e9cb3d87805e255355df5db32ac9a669010a2::events::ListEvent",
     "0x2c7bccf7b31baf770fdbcc768d9e9cb3d87805e255355df5db32ac9a669010a2::events::SellEvent",
     "0x2c7bccf7b31baf770fdbcc768d9e9cb3d87805e255355df5db32ac9a669010a2::events::SendEvent",
     "0xf6994988bd40261af9431cd6dd3fcf765569719e66322c7a05cc78a89cd366d4::FixedPriceMarket::BuyTokenEvent",
     "0xf6994988bd40261af9431cd6dd3fcf765569719e66322c7a05cc78a89cd366d4::FixedPriceMarket::CancelListTokenEvent",
     "0xf6994988bd40261af9431cd6dd3fcf765569719e66322c7a05cc78a89cd366d4::FixedPriceMarket::ListTokenEvent",
     "0x1::coin::WithdrawEvent",
     "0x3",
     "0xd1fd99c1944b84d1670a2536417e997864ad12303d19eac725891691b04d614e",
     "0x2c7bccf7b31baf770fdbcc768d9e9cb3d87805e255355df5db32ac9a669010a2",
     "0xf6994988bd40261af9431cd6dd3fcf765569719e66322c7a05cc78a89cd366d4"}

\* The substrings the builders and the storage engine look for.
Needles ==
    {"List", "Delist", "Buy", "Sell", "Change", "CancelList", "Fill", "Send",
     "Auction", "Swap", NUL}

\* scan_contains tabulated once for the long strings above.
ContainsTable ==
    [s \in TagStrings |-> [sub \in Needles |-> scan_contains(s, sub)]]

\* str::contains: sub occurs in s as a contiguous substring (case-sensitive).
contains(s, sub) ==
    IF s \in TagStrings /\ sub \in Needles THEN ContainsTable[s][sub]
    ELSE scan_contains(s, sub)

\* event_type.split("::").next().unwrap(): the text before the first "::"
\* (the whole string when there is no "::").
scan_split_first(s) ==
    LET hits == {i \in 1..(Len(s) - 1) : SubSeq(s, i, i + 1) = "::"}
    IN IF hits = {} THEN s
       ELSE SubSeq(s, 1, (CHOOSE i \in hits : \A j \in hits : i <= j) - 1)

SplitFirstTable == [s \in TagStrings |-> scan_split_first(s)]

split_first(s) == IF s \in TagStrings THEN SplitFirstTable[s] ELSE scan_split_first(s)

\* remove_null_bytes on one string: every NUL character is dropped.
RECURSIVE scan_strip_nul(_)
scan_strip_nul(s) ==
    IF Len(s) = 0 THEN s
    ELSE IF Len(s) = 1 THEN (IF s = NUL THEN "" ELSE s)
    ELSE LET h == Len(s) \div 2
         IN scan_strip_nul(SubSeq(s, 1, h)) \o scan_strip_nul(SubSeq(s, h + 1, Len(s)))

strip_nul(s) == IF contains(s, NUL) THEN scan_strip_nul(s) ELSE s

\* The characters of s with "#" in the place of every NUL ("#" occurs in no
\* input).
RECURSIVE scan_escape_nul(_)
scan_escape_nul(s) ==
    IF Len(s) = 0 THEN s
    ELSE IF Len(s) = 1 THEN (IF s = NUL THEN "#" ELSE s)
    ELSE LET h == Len(s) \div 2
         IN scan_escape_nul(SubSeq(s, 1, h)) \o scan_escape_nul(SubSeq(s, h + 1, Len(s)))

\* util::hash_str: a content hash, modelled as an injective function whose
\* value (a hex digest) holds no NUL character.
hash_str(s) ==
    "sha256(" \o (IF contains(s, NUL) THEN scan_escape_nul(s) ELSE s) \o ")"

(* ------------------------- identity types ------------------------------ *)
\* impl Display for TokenDataIdType
TokenDataIdType_to_string(id) == id.creator \o "::" \o id.collection \o "::" \o id.name

\* TokenDataIdType::to_hash
to_hash(id) == hash_str(TokenDataIdType_to_string(id))

\* impl Display for CollectionDataIdType, CollectionDataIdType::to_hash
CollectionDataIdType_to_hash(c) == hash_str(c.creator \o "::" \o c.name)

\* TokenDataIdType::get_collection_data_id_hash
get_collection_data_id_hash(id) ==
    CollectionDataIdType_to_hash([creator |-> id.creator, name |-> id.collection])

\* impl Display for TypeInfo
TypeInfo_to_string(t) == t.account_address \o "::" \o t.module_name \o "::" \o t.struct_name

(* --------------------------- event decoder ----------------------------- *)
\* The dispatch of TokenEvent::from_event: the variant a type tag decodes to,
\* "Unrecognized" for the catch-all arm.
TokenEventVariant(data_type) ==
    CASE data_type = "0x3::token::MintTokenEvent"
        -> "MintTokenEvent"
      [] data_type = "0x3::token::BurnTokenEvent"
        -> "BurnTokenEvent"
      [] data_type = "0x3::token::MutateTokenPropertyMapEvent"
        -> "MutateTokenPropertyMapEvent"
      [] data_type = "0x3::token::WithdrawEvent"
        -> "WithdrawTokenEvent"
      [] data_type = "0x3::token::DepositEvent"
        -> "DepositTokenEvent"
      [] data_type = "0x3::token_transfers::TokenOfferEvent"
        -> "OfferTokenEvent"
      [] data_type = "0x3::token_transfers::TokenCancelOfferEvent"
        -> "CancelTokenOfferEvent"
      [] data_type = "0x3::token_transfers::TokenClaimEvent"
        -> "ClaimTokenEvent"
      [] data_type = "0xd1fd99c1944b84d1670a2536417e997864ad12303d19eac725891691b04d614e::marketplaceV2::AuctionEvent"
        -> "BlueMoveAuctionEvent"
      [] data_type = "0xd1fd99c1944b84d1670a2536417e997864ad12303d19eac725891691b04d614e::marketplaceV2::BidEvent"
        -> "BlueBidEvent"
      [] data_type = "0xd1fd99c1944b84d1670a2536417e997864ad12303d19eac725891691b04d614e::marketplaceV2::BuyEvent"
        -> "BlueBuyEvent"
      [] data_type = "0xd1fd99c1944b84d1670a2536417e997864ad12303d19eac725891691b04d614e::marketplaceV2::ChangePriceEvent"
        -> "BlueChangePriceEvent"
      [] data_type = "0xd1fd99c1944b84d1670a2536417e997864ad12303d19eac725891691b04d614e::marketplaceV2::ClaimCoinsEvent"
        -> "BlueClaimCoinsEvent"
      [] data_type = "0xd1fd99c1944b84d1670a2536417e997864ad12303d19eac725891691b04d614e::marketplaceV2::ClaimTokenEvent"
        -> "BlueClaimTokenEvent"
      [] data_type = "0xd1fd99c1944b84d1670a2536417e997864ad12303d19eac725891691b04d614e::marketplaceV2::DelistEvent"
        -> "BlueDelistEvent"
      [] data_type = "0xd1fd99c1944b84d1670a2536417e997864ad12303d19eac725891691b04d614e::marketplaceV2::ListEvent"
        -> "BlueListEvent"
      [] data_type = "0x2c7bccf7b31baf770fdbcc768d9e9cb3d87805e255355df5db32ac9a669010a2::events::BidEvent"
        -> "TopazBidEvent"
      [] data_type = "0x2c7bccf7b31baf770fdbcc768d9e9cb3d87805e255355df5db32ac9a669010a2::events::BuyEvent"
        -> "TopazBuyEvent"
      [] data_type = "0x2c7bccf7b31baf770fdbcc768d9e9cb3d87805e255355df5db32ac9a669010a2::events::CancelBidEvent"
        -> "TopazCancelBidEvent"
      [] data_type = "0x2c7bccf7b31baf770fdbcc768d9e9cb3d87805e255355df5db32ac9a669010a2::events::CancelCollectionBidEvent"
        -> "TopazCancelCollectionBidEvent"
      [] data_type = "0x2c7bccf7b31baf770fdbcc768d9e9cb3d87805e255355df5db32ac9a669010a2::events::ClaimEvent"
        -> "TopazClaimEvent"
      [] data_type = "0x2c7bccf7b31baf770fdbcc768d9e9cb3d87805e255355df5db32ac9a669010a2::events::CollectionBidEvent"
        -> "TopazCollectionBidEvent"
      [] data_type = "0x2c7bccf7b31baf770fdbcc768d9e9cb3d87805e255355df5db32ac9a669010a2::events::DelistEvent"
        -> "TopazDelistEvent"
      [] data_type = "0x2c7bccf7b31baf770fdbcc768d9e9cb3d87805e255355df5db32ac9a669010a2::events::ListEvent"
        -> "TopazListEvent"
      [] data_type = "0x2c7bccf7b31baf770fdbcc768d9e9cb3d87805e255355df5db32ac9a669010a2::events::SellEvent"
        -> "TopazSellEvent"
      [] data_type = "0x2c7bccf7b31baf770fdbcc768d9e9cb3d87805e255355df5db32ac9a669010a2::events::SendEvent"
        -> "TopazSendEvent"
      [] data_type = "0xf6994988bd40261af9431cd6dd3fcf765569719e66322c7a05cc78a89cd366d4::FixedPriceMarket::BuyTokenEvent"
        -> "Souffl3BuyTokenEvent"
      [] data_type = "0xf6994988bd40261af9431cd6dd3fcf765569719e66322c7a05cc78a89cd366d4::FixedPriceMarket::CancelListTokenEvent"
        -> "Souffl3CancelListTokenEvent"
      [] data_type = "0xf6994988bd40261af9431cd6dd3fcf765569719e66322c7a05cc78a89cd366d4::FixedPriceMarket::ListTokenEvent"
        -> "Souffl3ListTokenEvent"
      [] OTHER -> "Unrecognized"

\* The fields serde requires in the payload of each variant (the fields of
\* the variant's *Type struct; none is optional or defaulted).
RequiredFields(variant) ==
    CASE variant = "MintTokenEvent"
        -> {"amount", "id"}
      [] variant = "BurnTokenEvent"
        -> {"amount", "id"}
      [] variant = "MutateTokenPropertyMapEvent"
        -> {"old_id", "new_id"}
      [] variant = "WithdrawTokenEvent"
        -> {"amount", "id"}
      [] variant = "DepositTokenEvent"
        -> {"amount", "id"}
      [] variant = "OfferTokenEvent"
        -> {"amount", "to_address", "token_id"}
      [] variant = "CancelTokenOfferEvent"
        -> {"amount", "to_address", "token_id"}
      [] variant = "ClaimTokenEvent"
        -> {"amount", "to_address", "token_id"}
      [] variant = "BlueMoveAuctionEvent"
        -> {"id", "min_selling_price", "duration", "start_time", "owner_address"}
      [] variant = "BlueBidEvent"
        -> {"id", "bid", "bider_address"}
      [] variant = "BlueBuyEvent"
        -> {"id", "buyer_address"}
      [] variant = "BlueChangePriceEvent"
        -> {"id", "amount", "seller_address"}
      [] variant = "BlueClaimCoinsEvent"
        -> {"id", "owner_token"}
      [] variant = "BlueClaimTokenEvent"
        -> {"id", "bider_address"}
      [] variant = "BlueDelistEvent"
        -> {"id", "seller_address"}
      [] variant = "BlueListEvent"
        -> {"id", "amount", "seller_address", "royalty_payee", "royalty_numerator", "royalty_denominator"}
      [] variant = "TopazBidEvent"
        -> {"timestamp", "bid_id", "token_id", "deadline", "price", "coin_type", "amount", "buyer"}
      [] variant = "TopazBuyEvent"
        -> {"timestamp", "listing_id", "token_id", "price", "amount", "seller", "buyer"}
      [] variant = "TopazCancelBidEvent"
        -> {"timestamp", "bid_id", "token_id", "deadline", "price", "coin_type", "amount", "buyer"}
      [] variant = "TopazCancelCollectionBidEvent"
        -> {"timestamp", "bid_id", "creator", "collection_name", "buyer", "price", "coin_type", "amount", "deadline"}
      [] variant = "TopazClaimEvent"
        -> {"timestamp", "token_id", "receiver"}
      [] variant = "TopazCollectionBidEvent"
        -> {"timestamp", "bid_id", "creator", "collection_name", "buyer", "price", "coin_type", "amount", "deadline"}
      [] variant = "TopazDelistEvent"
        -> {"timestamp", "listing_id", "token_id", "price", "amount", "seller"}
      [] variant = "TopazListEvent"
        -> {"timestamp", "listing_id", "token_id", "price", "amount", "seller"}
      [] variant = "TopazSellEvent"
        -> {"timestamp", "bid_id", "token_id", "deadline", "price", "coin_type", "amount", "buyer", "seller"}
      [] variant = "TopazSendEvent"
        -> {"timestamp", "token_id", "amount", "sender", "receiver"}
      [] variant = "Souffl3BuyTokenEvent"
        -> {"id", "token_id", "token_amount", "buyer", "token_owner", "coin_per_token"}
      [] variant = "Souffl3CancelListTokenEvent"
        -> {"id", "token_id", "token_amount"}
      [] variant = "Souffl3ListTokenEvent"
        -> {"id", "token_id", "token_owner", "token_amount", "coin_per_token"}

\* A mutant of from_event: a type tag outside the dispatch table is an error.
from_event_rejects_unrecognized(data_type, data) ==
    LET variant == TokenEventVariant(data_type)
    IN IF variant = "Unrecognized" THEN [ok |-> FALSE, value |-> None]
       ELSE IF RequiredFields(variant) \subseteq DOMAIN data
            THEN [ok |-> TRUE, value |-> Some([variant |-> variant, inner |-> data])]
            ELSE [ok |-> FALSE, value |-> None]

\* TokenEvent::from_event: Ok(None) for a type tag outside the dispatch table,
\* Ok(Some(variant)) when the payload deserializes, Err when a required
\* field is missing from the payload.
from_event(data_type, data) ==
    LET variant == TokenEventVariant(data_type)
    IN IF variant = "Unrecognized" THEN [ok |-> TRUE, value |-> None]
       ELSE IF RequiredFields(variant) \subseteq DOMAIN data
            THEN [ok |-> TRUE, value |-> Some([variant |-> variant, inner |-> data])]
            ELSE [ok |-> FALSE, value |-> None]

(* --------------------------- entity resolver --------------------------- *)
\* A mutant of CollectionBinding: every variant gets the identity of the
\* catch-all arm.
CollectionBinding_placeholder(variant, inner) ==
    [creator |-> "", collection |-> "", name |-> "COLLECTION"]

\* The synthesized identity of collection-wide bid events ("binding").
CollectionBinding(variant, inner) ==
    IF variant \in {"TopazCancelCollectionBidEvent", "TopazCollectionBidEvent"}
    THEN [creator |-> inner.creator, collection |-> inner.collection_name, name |-> "COLLECTION"]
    ELSE [creator |-> "", collection |-> "", name |-> "COLLECTION"]

\* The per-variant TokenActivityHelper mapping (the same match in the three
\* builders).
TokenActivityHelper(variant, inner, event_account_address) ==
    LET binding == CollectionBinding(variant, inner)
    IN
    CASE variant = "MintTokenEvent" ->
        [token_data_id |-> inner.id, property_version |-> 0, from_address |-> Some(event_account_address), to_address |-> None, token_amount |-> inner.amount, coin_type |-> None, coin_amount |-> None]
      [] variant = "BurnTokenEvent" ->
        [token_data_id |-> inner.id.token_data_id, property_version |-> inner.id.property_version, from_address |-> Some(event_account_address), to_address |-> None, token_amount |-> inner.amount, coin_type |-> None, coin_amount |-> None]
      [] variant = "MutateTokenPropertyMapEvent" ->
        [token_data_id |-> inner.new_id.token_data_id, property_version |-> inner.new_id.property_version, from_address |-> Some(event_account_address), to_address |-> None, token_amount |-> 0, coin_type |-> None, coin_amount |-> None]
      [] variant = "WithdrawTokenEvent" ->
        [token_data_id |-> inner.id.token_data_id, property_version |-> inner.id.property_version, from_address |-> Some(event_account_address), to_address |-> None, token_amount |-> inner.amount, coin_type |-> None, coin_amount |-> None]
      [] variant = "DepositTokenEvent" ->
        [token_data_id |-> inner.id.token_data_id, property_version |-> inner.id.property_version, from_address |-> None, to_address |-> Some(event_account_address), token_amount |-> inner.amount, coin_type |-> None, coin_amount |-> None]
      [] variant = "OfferTokenEvent" ->
        [token_data_id |-> inner.token_id.token_data_id, property_version |-> inner.token_id.property_version, from_address |-> Some(event_account_address), to_address |-> Some(inner.to_address), token_amount |-> inner.amount, coin_type |-> None, coin_amount |-> None]
      [] variant = "CancelTokenOfferEvent" ->
        [token_data_id |-> inner.token_id.token_data_id, property_version |-> inner.token_id.property_version, from_address |-> Some(event_account_address), to_address |-> Some(inner.to_address), token_amount |-> inner.amount, coin_type |-> None, coin_amount |-> None]
      [] variant = "ClaimTokenEvent" ->
        [token_data_id |-> inner.token_id.token_data_id, property_version |-> inner.token_id.property_version, from_address |-> Some(event_account_address), to_address |-> Some(inner.to_address), token_amount |-> inner.amount, coin_type |-> None, coin_amount |-> None]
      [] variant = "BlueMoveAuctionEvent" ->
        [token_data_id |-> inner.id.token_data_id, property_version |-> inner.id.property_version, from_address |-> Some(inner.owner_address), to_address |-> None, token_amount |-> 0, coin_type |-> None, coin_amount |-> Some(inner.min_selling_price)]
      [] variant = "BlueBidEvent" ->
        [token_data_id |-> inner.id.token_data_id, property_version |-> inner.id.property_version, from_address |-> Some(inner.bider_address), to_address |-> None, token_amount |-> 0, coin_type |-> None, coin_amount |-> Some(inner.bid)]
      [] variant = "BlueBuyEvent" ->
        [token_data_id |-> inner.id.token_data_id, property_version |-> inner.id.property_version, from_address |-> None, to_address |-> Some(inner.buyer_address), token_amount |-> 0, coin_type |-> None, coin_amount |-> None]
      [] variant = "BlueChangePriceEvent" ->
        [token_data_id |-> inner.id.token_data_id, property_version |-> inner.id.property_version, from_address |-> Some(inner.seller_address), to_address |-> None, token_amount |-> 0, coin_type |-> None, coin_amount |-> Some(inner.amount)]
      [] variant = "BlueClaimCoinsEvent" ->
        [token_data_id |-> inner.id.token_data_id, property_version |-> inner.id.property_version, from_address |-> Some(inner.owner_token), to_address |-> None, token_amount |-> 0, coin_type |-> None, coin_amount |-> None]
      [] variant = "BlueClaimTokenEvent" ->
        [token_data_id |-> inner.id.token_data_id, property_version |-> inner.id.property_version, from_address |-> None, to_address |-> Some(inner.bider_address), token_amount |-> 0, coin_type |-> None, coin_amount |-> None]
      [] variant = "BlueDelistEvent" ->
        [token_data_id |-> inner.id.token_data_id, property_version |-> inner.id.property_version, from_address |-> Some(inner.seller_address), to_address |-> None, token_amount |-> 0, coin_type |-> None, coin_amount |-> None]
      [] variant = "BlueListEvent" ->
        [token_data_id |-> inner.id.token_data_id, property_version |-> inner.id.property_version, from_address |-> Some(inner.seller_address), to_address |-> None, token_amount |-> inner.amount, coin_type |-> None, coin_amount |-> None]
      [] variant = "TopazBidEvent" ->
        [token_data_id |-> inner.token_id.token_data_id, property_version |-> inner.token_id.property_version, from_address |-> Some(inner.buyer), to_address |-> None, token_amount |-> inner.amount, coin_type |-> Some(TypeInfo_to_string(inner.coin_type)), coin_amount |-> Some(inner.price)]
      [] variant = "TopazBuyEvent" ->
        [token_data_id |-> inner.token_id.token_data_id, property_version |-> inner.token_id.property_version, from_address |-> Some(inner.seller), to_address |-> Some(inner.buyer), token_amount |-> inner.amount, coin_type |-> None, coin_amount |-> Some(inner.price)]
      [] variant = "TopazCancelBidEvent" ->
        [token_data_id |-> inner.token_id.token_data_id, property_version |-> inner.token_id.property_version, from_address |-> Some(inner.buyer), to_address |-> None, token_amount |-> inner.amount, coin_type |-> Some(TypeInfo_to_string(inner.coin_type)), coin_amount |-> Some(inner.price)]
      [] variant = "TopazCancelCollectionBidEvent" ->
        [token_data_id |-> binding, property_version |-> 0, from_address |-> Some(inner.buyer), to_address |-> None, token_amount |-> inner.amount, coin_type |-> Some(TypeInfo_to_string(inner.coin_type)), coin_amount |-> Some(inner.price)]
      [] variant = "TopazClaimEvent" ->
        [token_data_id |-> inner.token_id.token_data_id, property_version |-> inner.token_id.property_version, from_address |-> None, to_address |-> Some(inner.receiver), token_amount |-> 0, coin_type |-> None, coin_amount |-> None]
      [] variant = "TopazCollectionBidEvent" ->
        [token_data_id |-> binding, property_version |-> 0, from_address |-> Some(inner.buyer), to_address |-> None, token_amount |-> inner.amount, coin_type |-> Some(TypeInfo_to_string(inner.coin_type)), coin_amount |-> Some(inner.price)]
      [] variant = "TopazDelistEvent" ->
        [token_data_id |-> inner.token_id.token_data_id, property_version |-> inner.token_id.property_version, from_address |-> Some(inner.seller), to_address |-> None, token_amount |-> inner.amount, coin_type |-> None, coin_amount |-> Some(inner.price)]
      [] variant = "TopazListEvent" ->
        [token_data_id |-> inner.token_id.token_data_id, property_version |-> inner.token_id.property_version, from_address |-> Some(inner.seller), to_address |-> None, token_amount |-> inner.amount, coin_type |-> None, coin_amount |-> Some(inner.price)]
      [] variant = "TopazSellEvent" ->
        [token_data_id |-> inner.token_id.token_data_id, property_version |-> inner.token_id.property_version, from_address |-> Some(inner.seller), to_address |-> Some(inner.buyer), token_amount |-> inner.amount, coin_type |-> Some(TypeInfo_to_string(inner.coin_type)), coin_amount |-> Some(inner.price)]
      [] variant = "TopazSendEvent" ->
        [token_data_id |-> inner.token_id.token_data_id, property_version |-> inner.token_id.property_version, from_address |-> Some(inner.sender), to_address |-> Some(inner.receiver), token_amount |-> inner.amount, coin_type |-> None, coin_amount |-> None]
      [] variant = "Souffl3BuyTokenEvent" ->
        [token_data_id |-> inner.token_id.token_data_id, property_version |-> inner.token_id.property_version, from_address |-> Some(inner.token_owner), to_address |-> Some(inner.buyer), token_amount |-> inner.token_amount, coin_type |-> None, coin_amount |-> Some(inner.coin_per_token)]
      [] variant = "Souffl3CancelListTokenEvent" ->
        [token_data_id |-> inner.token_id.token_data_id, property_version |-> inner.token_id.property_version, from_address |-> None, to_address |-> None, token_amount |-> inner.token_amount, coin_type |-> None, coin_amount |-> None]
      [] variant = "Souffl3ListTokenEvent" ->
        [token_data_id |-> inner.token_id.token_data_id, property_version |-> inner.token_id.property_version, from_address |-> Some(inner.token_owner), to_address |-> None, token_amount |-> inner.token_amount, coin_type |-> None, coin_amount |-> Some(inner.coin_per_token)]

\* A mutant of EventTokenDataId: the Souffl3 variants are missing from the
\* first match and take the placeholder.
EventTokenDataId_without_souffl3(variant, inner) ==
    IF variant \in {"BlueMoveAuctionEvent", "BlueBidEvent", "BlueBuyEvent",
                    "BlueChangePriceEvent", "BlueClaimCoinsEvent",
                    "BlueClaimTokenEvent", "BlueDelistEvent", "BlueListEvent"}
    THEN inner.id.token_data_id
    ELSE IF variant \in {"TopazBidEvent", "TopazBuyEvent", "TopazCancelBidEvent",
                         "TopazClaimEvent", "TopazDelistEvent", "TopazListEvent",
                         "TopazSellEvent", "TopazSendEvent"}
    THEN inner.token_id.token_data_id
    ELSE [creator |-> "", collection |-> "", name |-> ""]

\* The token identity the Listing and Volume builders key their rows by: the
\* payload's own token_data_id for the variants of the first match, the
\* placeholder with empty creator, collection and name for every other one.
EventTokenDataId(variant, inner) ==
    IF variant \in {"BlueMoveAuctionEvent", "BlueBidEvent", "BlueBuyEvent",
                    "BlueChangePriceEvent", "BlueClaimCoinsEvent",
                    "BlueClaimTokenEvent", "BlueDelistEvent", "BlueListEvent"}
    THEN inner.id.token_data_id
    ELSE IF variant \in {"TopazBidEvent", "TopazBuyEvent", "TopazCancelBidEvent",
                         "TopazClaimEvent", "TopazDelistEvent", "TopazListEvent",
                         "TopazSellEvent", "TopazSendEvent", "Souffl3BuyTokenEvent",
                         "Souffl3CancelListTokenEvent", "Souffl3ListTokenEvent"}
    THEN inner.token_id.token_data_id
    ELSE [creator |-> "", collection |-> "", name |-> ""]

NAME_LENGTH == 128

\* util::truncate_str: the first max_chars characters of the string.
truncate_str(s, max_chars) == IF Len(s) <= max_chars THEN s ELSE SubSeq(s, 1, max_chars)

(* ------------------------- derived-table builders ---------------------- *)
\* The row TokenActivity::from_parsed_event makes of the resolved helper.
TokenActivity_row(event_type, event, helper, token_data_id, txn_version, txn_timestamp) ==
    [transaction_version |-> txn_version,
     event_account_address |-> event.account_address,
     event_creation_number |-> event.creation_number,
     event_sequence_number |-> event.sequence_number,
     token_data_id_hash |-> to_hash(token_data_id),
     property_version |-> helper.property_version,
     creator_address |-> token_data_id.creator,
     collection_name |-> truncate_str(token_data_id.collection, NAME_LENGTH),
     name |-> truncate_str(token_data_id.name, NAME_LENGTH),
     transfer_type |-> event_type,
     from_address |-> helper.from_address,
     to_address |-> helper.to_address,
     token_amount |-> helper.token_amount,
     coin_type |-> helper.coin_type,
     coin_amount |-> helper.coin_amount,
     collection_data_id_hash |-> get_collection_data_id_hash(token_data_id),
     transaction_timestamp |-> txn_timestamp]

\* TokenActivity::from_parsed_event: the identity of the row is the helper's
\* token_data_id.
TokenActivity_with_helper(event_type, event, helper, txn_version, txn_timestamp) ==
    TokenActivity_row(event_type, event, helper, helper.token_data_id,
                      txn_version, txn_timestamp)

TokenActivity_from_parsed_event(event_type, event, token_event, txn_version, txn_timestamp) ==
    TokenActivity_with_helper(
        event_type, event,
        TokenActivityHelper(token_event.variant, token_event.inner, event.account_address),
        txn_version, txn_timestamp)

\* A mutant of listing_market_address: only List events keep the address.
listing_market_address_of_lists_only(event_type) ==
    IF \/ ~contains(event_type, "List")
       \/ contains(event_type, "CancelList")
       \/ contains(event_type, "Delist")
    THEN ""
    ELSE split_first(event_type)

\* The market address of a listing row: the text of the type tag before the
\* first "::" for List and Auction events that are neither CancelList nor
\* Delist, the empty string otherwise.
listing_market_address(event_type) ==
    IF \/ ~(contains(event_type, "List") \/ contains(event_type, "Auction"))
       \/ contains(event_type, "CancelList")
       \/ contains(event_type, "Delist")
    THEN ""
    ELSE split_first(event_type)

\* A mutant of CurrentMarketplaceListing_row: the inclusion filter does not
\* look for "Change".
CurrentMarketplaceListing_row_without_change(event_type, token_data_id, helper, txn_timestamp) ==
    IF \/ contains(event_type, "List")
       \/ contains(event_type, "Delist")
       \/ contains(event_type, "Buy")
       \/ contains(event_type, "Sell")
       \/ contains(event_type, "CancelList")
       \/ contains(event_type, "Fill")
       \/ contains(event_type, "Send")
       \/ contains(event_type, "Auction")
    THEN Some([collection_data_id_hash |-> get_collection_data_id_hash(token_data_id),
               market_address |-> listing_market_address(event_type),
               token_data_id_hash |-> to_hash(token_data_id),
               property_version |-> helper.property_version,
               creator_address |-> token_data_id.creator,
               collection_name |-> token_data_id.collection,
               name |-> token_data_id.name,
               seller |-> unwrap_or(helper.from_address, ""),
               amount |-> helper.token_amount,
               price |-> unwrap_or(helper.coin_amount, 0),
               event_type |-> event_type,
               inserted_at |-> txn_timestamp])
    ELSE None

\* The tail of CurrentMarketplaceListing::from_parsed_event: Some(row) when
\* the type tag passes the inclusion filter, None otherwise.  The row has no
\* last_transaction_version field.
CurrentMarketplaceListing_row(event_type, token_data_id, helper, txn_timestamp) ==
    IF \/ contains(event_type, "List")
       \/ contains(event_type, "Delist")
       \/ contains(event_type, "Buy")
       \/ contains(event_type, "Sell")
       \/ contains(event_type, "Change")
       \/ contains(event_type, "CancelList")
       \/ contains(event_type, "Fill")
       \/ contains(event_type, "Send")
       \/ contains(event_type, "Auction")
    THEN Some([collection_data_id_hash |-> get_collection_data_id_hash(token_data_id),
               market_address |-> listing_market_address(event_type),
               token_data_id_hash |-> to_hash(token_data_id),
               property_version |-> helper.property_version,
               creator_address |-> token_data_id.creator,
               collection_name |-> token_data_id.collection,
               name |-> token_data_id.name,
               seller |-> unwrap_or(helper.from_address, ""),
               amount |-> helper.token_amount,
               price |-> unwrap_or(helper.coin_amount, 0),
               event_type |-> event_type,
               inserted_at |-> txn_timestamp])
    ELSE None

\* CurrentMarketplaceListing::from_parsed_event
CurrentMarketplaceListing_from_parsed_event(event_type, event, token_event, txn_version, txn_timestamp) ==
    CurrentMarketplaceListing_row(
        event_type,
        EventTokenDataId(token_event.variant, token_event.inner),
        TokenActivityHelper(token_event.variant, token_event.inner, event.account_address),
        txn_timestamp)

\* The current and the append-only row of one volume table.
volume_row(key_name, key, volume, txn_version, txn_timestamp) ==
    IF key_name = "collection_data_id_hash"
    THEN [collection_data_id_hash |-> key, volume |-> volume,
          inserted_at |-> txn_timestamp, last_transaction_version |-> txn_version]
    ELSE [token_data_id_hash |-> key, volume |-> volume,
          inserted_at |-> txn_timestamp, last_transaction_version |-> txn_version]

\* The four rows of one trade.
volume_rows(crow, trow) ==
    [current_collection_volume |-> crow, collection_volume |-> crow,
     current_token_volume |-> trow, token_volume |-> trow]

\* A mutant of CurrentCollectionVolume_rows: the inclusion filter does not
\* look for "Sell".
CurrentCollectionVolume_rows_without_sell(event_type, token_data_id, volume, txn_version, txn_timestamp) ==
    IF \/ contains(event_type, "Buy")
       \/ contains(event_type, "Swap")
    THEN Some(volume_rows(
                volume_row("collection_data_id_hash",
                           get_collection_data_id_hash(token_data_id),
                           volume, txn_version, txn_timestamp),
                volume_row("token_data_id_hash",
                           TokenDataIdType_to_string(token_data_id),
                           volume, txn_version, txn_timestamp)))
    ELSE None

\* The tail of CurrentCollectionVolume::from_parse_event: Some of the four
\* volume rows when the type tag contains Buy, Sell or Swap, None otherwise.
\* The token rows are keyed by token_data_id.to_string().
CurrentCollectionVolume_rows(event_type, token_data_id, volume, txn_version, txn_timestamp) ==
    IF \/ contains(event_type, "Buy")
       \/ contains(event_type, "Sell")
       \/ contains(event_type, "Swap")
    THEN Some(volume_rows(
                volume_row("collection_data_id_hash",
                           get_collection_data_id_hash(token_data_id),
                           volume, txn_version, txn_timestamp),
                volume_row("token_data_id_hash",
                           TokenDataIdType_to_string(token_data_id),
                           volume, txn_version, txn_timestamp)))
    ELSE None

\* CurrentCollectionVolume::from_parse_event
CurrentCollectionVolume_from_parse_event(event_type, event, token_event, txn_version, txn_timestamp) ==
    CurrentCollectionVolume_rows(
        event_type,
        EventTokenDataId(token_event.variant, token_event.inner),
        unwrap_or(TokenActivityHelper(token_event.variant, token_event.inner,
                                      event.account_address).coin_amount, 0),
        txn_version, txn_timestamp)

(* ------------------------------ HashMap -------------------------------- *)
\* A mutant of HashMap_insert: the value stored under an existing key is
\* kept.
HashMap_insert_keep_first(map, k, v) ==
    [x \in (DOMAIN map) \cup {k} |-> IF x \in DOMAIN map THEN map[x] ELSE v]

\* HashMap::insert: the value stored under an existing key is replaced.
HashMap_insert(map, k, v) ==
    [x \in (DOMAIN map) \cup {k} |-> IF x = k THEN v ELSE map[x]]

\* HashMap::extend: insert of every entry of other, in turn.
HashMap_extend(map, other) ==
    [x \in (DOMAIN map) \cup (DOMAIN other) |->
        IF x \in DOMAIN other THEN other[x] ELSE map[x]]

EmptyMap == [x \in {} |-> x]

(* --------------------------- from_transaction -------------------------- *)
\* A mutant of TokenActivity_push: only the events the Volume builder takes
\* push a row.
TokenActivity_push_trades_only(acc, event, value, txn) ==
    IF value = None \/ ~(contains(event.typ, "Buy") \/ contains(event.typ, "Sell"))
    THEN acc
    ELSE Append(acc, TokenActivity_from_parsed_event(
                        event.typ, event, value[1], txn.version, txn.timestamp))

\* One turn of the loop of TokenActivity::from_transaction: a decoded event
\* pushes its row, an undecoded type is skipped.
TokenActivity_push(acc, event, value, txn) ==
    IF value = None THEN acc
    ELSE Append(acc, TokenActivity_from_parsed_event(
                        event.typ, event, value[1], txn.version, txn.timestamp))

\* The loop of TokenActivity::from_transaction from event i on; the unwrap of
\* a decode error panics.
RECURSIVE TokenActivity_events(_, _, _)
TokenActivity_events(txn, i, acc) ==
    IF i > Len(txn.events) THEN [panic |-> FALSE, rows |-> acc]
    ELSE IF ~from_event(txn.events[i].typ, txn.events[i].data).ok
    THEN [panic |-> TRUE, rows |-> <<>>]
    ELSE TokenActivity_events(txn, i + 1,
            TokenActivity_push(acc, txn.events[i],
                from_event(txn.events[i].typ, txn.events[i].data).value, txn))

\* TokenActivity::from_transaction
TokenActivity_from_transaction(txn) ==
    IF txn.type = "user" THEN TokenActivity_events(txn, 1, <<>>)
    ELSE [panic |-> FALSE, rows |-> <<>>]

\* current_marketplace_listings.insert(token_data_id_hash, row) for a row
\* the builder returned.
CurrentMarketplaceListing_insert(acc, parsed_event) ==
    IF parsed_event = None THEN acc
    ELSE HashMap_insert(acc, parsed_event[1].token_data_id_hash, parsed_event[1])

\* One turn of the loop of CurrentMarketplaceListing::from_transaction.
CurrentMarketplaceListing_push(acc, event, value, txn) ==
    IF value = None THEN acc
    ELSE CurrentMarketplaceListing_insert(acc,
            CurrentMarketplaceListing_from_parsed_event(
                event.typ, event, value[1], txn.version, txn.timestamp))

\* The loop of CurrentMarketplaceListing::from_transaction from event i on.
RECURSIVE CurrentMarketplaceListing_events(_, _, _)
CurrentMarketplaceListing_events(txn, i, acc) ==
    IF i > Len(txn.events) THEN [panic |-> FALSE, rows |-> acc]
    ELSE IF ~from_event(txn.events[i].typ, txn.events[i].data).ok
    THEN [panic |-> TRUE, rows |-> EmptyMap]
    ELSE CurrentMarketplaceListing_events(txn, i + 1,
            CurrentMarketplaceListing_push(acc, txn.events[i],
                from_event(txn.events[i].typ, txn.events[i].data).value, txn))

\* CurrentMarketplaceListing::from_transaction
CurrentMarketplaceListing_from_transaction(txn) ==
    IF txn.type = "user" THEN CurrentMarketplaceListing_events(txn, 1, EmptyMap)
    ELSE [panic |-> FALSE, rows |-> EmptyMap]

NoVolumes ==
    [current_collection_volumes |-> EmptyMap, collection_volumes |-> <<>>,
     current_token_volumes |-> EmptyMap, token_volumes |-> <<>>]

\* The current rows of a trade go into the maps by insert, the append-only
\* rows are pushed onto the vectors.
CurrentCollectionVolume_insert(acc, parsed_event) ==
    IF parsed_event = None THEN acc
    ELSE [current_collection_volumes |->
              HashMap_insert(acc.current_collection_volumes,
                  parsed_event[1].current_collection_volume.collection_data_id_hash,
                  parsed_event[1].current_collection_volume),
          collection_volumes |->
              Append(acc.collection_volumes, parsed_event[1].collection_volume),
          current_token_volumes |->
              HashMap_insert(acc.current_token_volumes,
                  parsed_event[1].current_token_volume.token_data_id_hash,
                  parsed_event[1].current_token_volume),
          token_volumes |->
              Append(acc.token_volumes, parsed_event[1].token_volume)]

\* One turn of the loop of CurrentCollectionVolume::from_transaction.
CurrentCollectionVolume_push(acc, event, value, txn) ==
    IF value = None THEN acc
    ELSE CurrentCollectionVolume_insert(acc,
            CurrentCollectionVolume_from_parse_event(
                event.typ, event, value[1], txn.version, txn.timestamp))

\* The loop of CurrentCollectionVolume::from_transaction from event i on.
RECURSIVE CurrentCollectionVolume_events(_, _, _)
CurrentCollectionVolume_events(txn, i, acc) ==
    IF i > Len(txn.events) THEN [panic |-> FALSE, rows |-> acc]
    ELSE IF ~from_event(txn.events[i].typ, txn.events[i].data).ok
    THEN [panic |-> TRUE, rows |-> NoVolumes]
    ELSE CurrentCollectionVolume_events(txn, i + 1,
            CurrentCollectionVolume_push(acc, txn.events[i],
                from_event(txn.events[i].typ, txn.events[i].data).value, txn))

\* CurrentCollectionVolume::from_transaction
CurrentCollectionVolume_from_transaction(txn) ==
    IF txn.type = "user" THEN CurrentCollectionVolume_events(txn, 1, NoVolumes)
    ELSE [panic |-> FALSE, rows |-> NoVolumes]

(* ------------------------------- inputs -------------------------------- *)
TopazBuyTag ==
    "0x2c7bccf7b31baf770fdbcc768d9e9cb3d87805e255355df5db32ac9a669010a2::events::BuyEvent"
TopazListTag ==
    "0x2c7bccf7b31baf770fdbcc768d9e9cb3d87805e255355df5db32ac9a669010a2::events::ListEvent"
TopazAddress == "0x2c7bccf7b31baf770fdbcc768d9e9cb3d87805e255355df5db32ac9a669010a2"
CoinWithdrawTag == "0x1::coin::WithdrawEvent"
TopazCollectionBidTag ==
    "0x2c7bccf7b31baf770fdbcc768d9e9cb3d87805e255355df5db32ac9a669010a2::events::CollectionBidEvent"

\* Two tokens of one collection.
Token1 == [creator |-> "0xc1", collection |-> "Apes", name |-> "a1"]
Token2 == [creator |-> "0xc1", collection |-> "Apes", name |-> "a2"]

TokenId(token) == [token_data_id |-> token, property_version |-> 0]

BuyPayload(token, price, seller) ==
    [timestamp |-> 0, listing_id |-> 0, token_id |-> TokenId(token),
     price |-> price, amount |-> 1, seller |-> seller, buyer |-> "0xb1"]

ListPayload(token, price, seller) ==
    [timestamp |-> 0, listing_id |-> 0, token_id |-> TokenId(token),
     price |-> price, amount |-> 1, seller |-> seller]

\* Events: two trades (the second with a NUL in its seller string), a
\* listing, a BuyEvent whose payload lacks "price", and an event of a type
\* the indexer does not decode.
Buy1 == [typ |-> TopazBuyTag, data |-> BuyPayload(Token1, 1, "0xs1")]
Buy2 == [typ |-> TopazBuyTag, data |-> BuyPayload(Token2, 2, "0xs" \o NUL \o "2")]
List1 == [typ |-> TopazListTag, data |-> ListPayload(Token1, 3, "0xs3")]
Buy3 == [typ |-> TopazBuyTag, data |-> BuyPayload(Token2, 2, "0xs2")]
List2 == [typ |-> TopazListTag, data |-> ListPayload(Token1, 5, "0xs1")]
Malformed ==
    [typ |-> TopazBuyTag,
     data |-> [timestamp |-> 0, listing_id |-> 0, token_id |-> TokenId(Token1),
               amount |-> 1, seller |-> "0xs1", buyer |-> "0xb1"]]
Unrecognized == [typ |-> CoinWithdrawTag, data |-> [amount |-> 1]]

\* A bid on a whole collection: the payload names creator and collection and
\* no token.
CollectionBidPayload(creator, collection_name, price) ==
    [timestamp |-> 0, bid_id |-> 0, creator |-> creator,
     collection_name |-> collection_name, buyer |-> "0xb1", price |-> price,
     coin_type |-> [account_address |-> "0x1", module_name |-> "aptos_coin",
                    struct_name |-> "AptosCoin"],
     amount |-> 1, deadline |-> 0]

CollectionBid1 ==
    [typ |-> TopazCollectionBidTag, data |-> CollectionBidPayload("0xc1", "Apes", 4)]

\* The bodies a transaction of the chain may have: a trade; a listing after
\* an event of another module; a trade with a NUL in its seller; a trade
\* followed by an event that does not deserialize; a transaction that is
\* not a user transaction (which carries events too); a bid on a collection
\* followed by two trades on one token; a trade and then a listing of the
\* same token.
TxnBodies ==
    {[type |-> "user", events |-> <<Buy1>>],
     [type |-> "user", events |-> <<Unrecognized, List1>>],
     [type |-> "user", events |-> <<Buy2>>],
     [type |-> "user", events |-> <<Buy1, Malformed>>],
     [type |-> "block_metadata", events |-> <<Buy1>>],
     [type |-> "user", events |-> <<CollectionBid1, Buy1, Buy1>>],
     [type |-> "user", events |-> <<Buy1, List2>>]}

(* --------------------- every variant of the decoder -------------------- *)
\* The type tags of the dispatch table of TokenEvent::from_event.
DispatchTags == {tag \in TagStrings : TokenEventVariant(tag) # "Unrecognized"}

\* The value field f has in the payload of an event of the given variant:
\* token ids name Token1, every amount and every address is a value of its
\* own.
FieldValue(variant, f) ==
    CASE f = "id" ->
            IF variant = "MintTokenEvent" THEN Token1
            ELSE IF variant \in {"Souffl3BuyTokenEvent", "Souffl3CancelListTokenEvent",
                                 "Souffl3ListTokenEvent"}
            THEN [market_address |-> "0xf6", name |-> "FixedPriceMarket"]
            ELSE TokenId(Token1)
      [] f \in {"old_id", "new_id", "token_id"} -> TokenId(Token1)
      [] f = "amount" -> 2
      [] f = "token_amount" -> 3
      [] f = "coin_per_token" -> 6
      [] f = "price" -> 7
      [] f = "bid" -> 8
      [] f = "min_selling_price" -> 9
      [] f = "to_address" -> "0xt1"
      [] f = "owner_address" -> "0xo1"
      [] f = "bider_address" -> "0xbd"
      [] f = "buyer_address" -> "0xba"
      [] f = "seller_address" -> "0xsa"
      [] f = "owner_token" -> "0xot"
      [] f = "royalty_payee" -> "0xrp"
      [] f = "buyer" -> "0xb1"
      [] f = "seller" -> "0xs1"
      [] f = "sender" -> "0xsd"
      [] f = "receiver" -> "0xr1"
      [] f = "token_owner" -> "0xto"
      [] f = "creator" -> "0xc1"
      [] f = "collection_name" -> "Apes"
      [] f = "coin_type" ->
            [account_address |-> "0x1", module_name |-> "aptos_coin",
             struct_name |-> "AptosCoin"]
      [] OTHER -> 0

\* A payload that deserializes into the variant's struct.
EventPayload(variant) == [f \in RequiredFields(variant) |-> FieldValue(variant, f)]

\* An event of the given type tag.
DispatchEvent(tag) == [typ |-> tag, data |-> EventPayload(TokenEventVariant(tag))]

\* A token whose name is one character longer than NAME_LENGTH.
Chars16 == "aaaaaaaaaaaaaaaa"
Chars64 == Chars16 \o Chars16 \o Chars16 \o Chars16
TokenLong ==
    [creator |-> "0xc1", collection |-> "Apes", name |-> Chars64 \o Chars64 \o "a"]

ListLong == [typ |-> TopazListTag, data |-> ListPayload(TokenLong, 3, "0xs3")]

\* Transactions for the builders: an event of each type tag of the dispatch
\* table followed by a trade of another token; an event of another module
\* before a listing; a trade before an event that does not deserialize; a
\* listing of a token with an overlong name; a transaction that is not a
\* user transaction.
BuilderBodies ==
    {[type |-> "user", events |-> <<DispatchEvent(tag), Buy3>>] : tag \in DispatchTags}
    \cup {[type |-> "user", events |-> <<Unrecognized, DispatchEvent(TopazListTag)>>],
          [type |-> "user", events |-> <<DispatchEvent(TopazBuyTag), Malformed>>],
          [type |-> "user", events |-> <<ListLong>>],
          [type |-> "block_metadata", events |-> <<DispatchEvent(TopazBuyTag)>>]}

\* The transaction at version v: the guid of its i-th event is unique on the
\* chain.
MakeTransaction(body, v) ==
    [type |-> body.type, version |-> v, timestamp |-> 1000 + v,
     events |-> [i \in 1..Len(body.events) |->
                    [typ |-> body.events[i].typ, data |-> body.events[i].data,
                     account_address |-> "0xe1", creation_number |-> 7,
                     sequence_number |-> i]]]

\* Every transaction a chain can hold.
AllTransactions ==
    {MakeTransaction(body, v) : body \in TxnBodies \cup BuilderBodies, v \in 1..MaxVersion}

\* The three from_transaction calls of the loop body on one transaction.
from_transactions(txn) ==
    [activities |-> TokenActivity_from_transaction(txn),
     listings |-> CurrentMarketplaceListing_from_transaction(txn),
     volumes |-> CurrentCollectionVolume_from_transaction(txn)]

\* from_transactions tabulated once for the transactions above.
FromTransactionTable == [txn \in AllTransactions |-> from_transactions(txn)]

\* The entry of x in a table of tabulated values, or the value computed.
lookup_or(table, x, computed) == IF x \in DOMAIN table THEN table[x] ELSE computed

derived_rows(txn) == lookup_or(FromTransactionTable, txn, from_transactions(txn))

(* ------------------- batch accumulation and ordering ------------------- *)
\* Byte order of the characters that occur in keys; NUL (written "~") is the
\* lowest byte.
AsciiOrder == "~#()0123456789:ABCDEFGHIJKLMNOPQRSTUVWXYZ_abcdefghijklmnopqrstuvwxyz"

char_rank(c) == CHOOSE i \in 1..Len(AsciiOrder) : SubSeq(AsciiOrder, i, i) = c

\* String::cmp(a, b) = Less: lexicographic byte order.
str_lt(a, b) ==
    LET n == IF Len(a) < Len(b) THEN Len(a) ELSE Len(b)
        diff == {i \in 1..n : SubSeq(a, i, i) # SubSeq(b, i, i)}
    IN IF diff = {} THEN Len(a) < Len(b)
       ELSE LET i == CHOOSE i \in diff : \A j \in diff : i <= j
            IN char_rank(SubSeq(a, i, i)) < char_rank(SubSeq(b, i, i))

\* map.into_values().collect() followed by sort_by on the primary key (the
\* key of the map): the values in ascending key order.
RECURSIVE sorted_values(_, _)
sorted_values(map, keys) ==
    IF keys = {} THEN <<>>
    ELSE LET k == CHOOSE k \in keys : \A j \in keys \ {k} : str_lt(k, j)
         IN <<map[k]>> \o sorted_values(map, keys \ {k})

\* The values of a map in descending key order.
RECURSIVE descending_values(_, _)
descending_values(map, keys) ==
    IF keys = {} THEN <<>>
    ELSE LET k == CHOOSE k \in keys : \A j \in keys \ {k} : str_lt(j, k)
         IN <<map[k]>> \o descending_values(map, keys \ {k})

\* A mutant of into_sorted_values: the sort puts the highest key first.
into_values_descending(map) == descending_values(map, DOMAIN map)

into_sorted_values(map) == sorted_values(map, DOMAIN map)

NoRows ==
    [token_activities |-> <<>>, current_marketplace_listings |-> EmptyMap,
     current_collection_volumes |-> EmptyMap, collection_volumes |-> <<>>,
     current_token_volumes |-> EmptyMap, token_volumes |-> <<>>]

\* A mutant of extend_rows: a transaction whose events fail to decode is left
\* out and the rows gathered so far go on to be written.
extend_rows_past_failure(acc, built) ==
    IF built.activities.panic \/ built.listings.panic \/ built.volumes.panic
    THEN [panic |-> FALSE, rows |-> acc]
    ELSE [panic |-> FALSE,
          rows |->
            [token_activities |-> acc.token_activities \o built.activities.rows,
             current_marketplace_listings |->
                 HashMap_extend(acc.current_marketplace_listings, built.listings.rows),
             current_collection_volumes |->
                 HashMap_extend(acc.current_collection_volumes,
                                built.volumes.rows.current_collection_volumes),
             collection_volumes |->
                 acc.collection_volumes \o built.volumes.rows.collection_volumes,
             current_token_volumes |->
                 HashMap_extend(acc.current_token_volumes,
                                built.volumes.rows.current_token_volumes),
             token_volumes |->
                 acc.token_volumes \o built.volumes.rows.token_volumes]]

\* The body of the loop "for txn in transactions" of process_transactions:
\* vectors are appended, maps are extended.
extend_rows(acc, built) ==
    IF built.activities.panic \/ built.listings.panic \/ built.volumes.panic
    THEN [panic |-> TRUE, rows |-> NoRows]
    ELSE [panic |-> FALSE,
          rows |->
            [token_activities |-> acc.token_activities \o built.activities.rows,
             current_marketplace_listings |->
                 HashMap_extend(acc.current_marketplace_listings, built.listings.rows),
             current_collection_volumes |->
                 HashMap_extend(acc.current_collection_volumes,
                                built.volumes.rows.current_collection_volumes),
             collection_volumes |->
                 acc.collection_volumes \o built.volumes.rows.collection_volumes,
             current_token_volumes |->
                 HashMap_extend(acc.current_token_volumes,
                                built.volumes.rows.current_token_volumes),
             token_volumes |->
                 acc.token_volumes \o built.volumes.rows.token_volumes]]

\* The loop body on one transaction.
extend_with_transaction(acc, txn) == extend_rows(acc, derived_rows(txn))

\* The loop from transaction i on.
RECURSIVE accumulate(_, _, _)
accumulate(transactions, i, acc) ==
    IF i > Len(transactions) THEN [panic |-> FALSE, rows |-> acc]
    ELSE LET extended == extend_with_transaction(acc, transactions[i])
         IN IF extended.panic THEN extended
            ELSE accumulate(transactions, i + 1, extended.rows)

\* The values of the maps sorted by primary key, the vectors as they are.
sort_row_sets(all) ==
    IF all.panic THEN all
    ELSE [panic |-> FALSE,
          rows |->
            [token_activities |-> all.rows.token_activities,
             current_marketplace_listings |->
                 into_sorted_values(all.rows.current_marketplace_listings),
             current_collection_volumes |->
                 into_sorted_values(all.rows.current_collection_volumes),
             collection_volumes |-> all.rows.collection_volumes,
             current_token_volumes |->
                 into_sorted_values(all.rows.current_token_volumes),
             token_volumes |-> all.rows.token_volumes]]

\* The row sets process_transactions hands to insert_to_db.
build_row_sets(transactions) == sort_row_sets(accumulate(transactions, 1, NoRows))

(* --------------------------- persistence engine ------------------------ *)
\* SQL "a <= b" in a WHERE clause: not true when either side is NULL (None).
sql_le(a, b) == a # None /\ b # None /\ a[1] <= b[1]

\* A mutant of TokenActivityKey: the conflict target lacks
\* transaction_version.
TokenActivityKey_without_version(r) ==
    <<r.event_account_address, r.event_creation_number, r.event_sequence_number>>

\* token_activities: ON CONFLICT (transaction_version, event_account_address,
\* event_creation_number, event_sequence_number) DO NOTHING.
TokenActivityKey(r) ==
    <<r.transaction_version, r.event_account_address,
      r.event_creation_number, r.event_sequence_number>>

RECURSIVE insert_token_activities(_, _, _)
insert_token_activities(table, items_to_insert, i) ==
    IF i > Len(items_to_insert) THEN table
    ELSE LET r == items_to_insert[i]
             k == TokenActivityKey(r)
         IN insert_token_activities(
                IF k \in DOMAIN table THEN table ELSE HashMap_insert(table, k, r),
                items_to_insert, i + 1)

\* A mutant of upsert_current_marketplace_listing: the conflict target is
\* (market_address, token_data_id_hash).
upsert_current_marketplace_listing_by_market(table, r, default_version) ==
    LET k == <<r.market_address, r.token_data_id_hash>>
    IN IF k \notin DOMAIN table
       THEN HashMap_insert(table, k,
                [collection_data_id_hash |-> r.collection_data_id_hash,
                 market_address |-> r.market_address,
                 token_data_id_hash |-> r.token_data_id_hash,
                 property_version |-> r.property_version,
                 creator_address |-> r.creator_address,
                 collection_name |-> r.collection_name,
                 name |-> r.name,
                 seller |-> r.seller,
                 amount |-> r.amount,
                 price |-> r.price,
                 event_type |-> r.event_type,
                 inserted_at |-> r.inserted_at,
                 last_transaction_version |-> default_version])
       ELSE IF sql_le(table[k].last_transaction_version, default_version)
       THEN [table EXCEPT ![k] =
                [@ EXCEPT !.property_version = r.property_version,
                          !.creator_address = r.creator_address,
                          !.collection_name = r.collection_name,
                          !.name = r.name,
                          !.seller = r.seller,
                          !.amount = r.amount,
                          !.price = r.price,
                          !.event_type = r.event_type,
                          !.inserted_at = r.inserted_at,
                          !.last_transaction_version = default_version]]
       ELSE table

\* One row of insert_current_marketplace_listings.  The inserted struct has
\* no last_transaction_version, so the column takes the table's default both
\* in the stored row and in "excluded"; market_address and
\* collection_data_id_hash are not in the SET list.
upsert_current_marketplace_listing(table, r, default_version) ==
    LET k == r.token_data_id_hash
    IN IF k \notin DOMAIN table
       THEN HashMap_insert(table, k,
                [collection_data_id_hash |-> r.collection_data_id_hash,
                 market_address |-> r.market_address,
                 token_data_id_hash |-> r.token_data_id_hash,
                 property_version |-> r.property_version,
                 creator_address |-> r.creator_address,
                 collection_name |-> r.collection_name,
                 name |-> r.name,
                 seller |-> r.seller,
                 amount |-> r.amount,
                 price |-> r.price,
                 event_type |-> r.event_type,
                 inserted_at |-> r.inserted_at,
                 last_transaction_version |-> default_version])
       ELSE IF sql_le(table[k].last_transaction_version, default_version)
       THEN [table EXCEPT ![k] =
                [@ EXCEPT !.property_version = r.property_version,
                          !.creator_address = r.creator_address,
                          !.collection_name = r.collection_name,
                          !.name = r.name,
                          !.seller = r.seller,
                          !.amount = r.amount,
                          !.price = r.price,
                          !.event_type = r.event_type,
                          !.inserted_at = r.inserted_at,
                          !.last_transaction_version = default_version]]
       ELSE table

RECURSIVE insert_current_marketplace_listings(_, _, _, _)
insert_current_marketplace_listings(table, items_to_insert, i, default_version) ==
    IF i > Len(items_to_insert) THEN table
    ELSE insert_current_marketplace_listings(
            upsert_current_marketplace_listing(table, items_to_insert[i], default_version),
            items_to_insert, i + 1, default_version)

\* A mutant of upsert_current_volume: the incoming volume is added even when
\* the version guard rejects the row.
upsert_current_volume_unguarded(table, k, r) ==
    IF k \notin DOMAIN table THEN HashMap_insert(table, k, r)
    ELSE IF table[k].last_transaction_version <= r.last_transaction_version
    THEN [table EXCEPT ![k] =
            [r EXCEPT !.volume = table[k].volume + r.volume]]
    ELSE [table EXCEPT ![k].volume = @ + r.volume]

\* A mutant of upsert_current_volume: on conflict the stored volume is
\* replaced by the incoming one.
upsert_current_volume_replace(table, k, r) ==
    IF k \notin DOMAIN table THEN HashMap_insert(table, k, r)
    ELSE IF table[k].last_transaction_version <= r.last_transaction_version
    THEN [table EXCEPT ![k] = r]
    ELSE table

\* One row of insert_current_collection_volumes / insert_current_token_volumes
\* (the two statements differ only in the name of the key column): insert, or
\* on conflict, WHERE stored.last_transaction_version <=
\* excluded.last_transaction_version, add the volume and take the other
\* columns from the incoming row.
upsert_current_volume(table, k, r) ==
    IF k \notin DOMAIN table THEN HashMap_insert(table, k, r)
    ELSE IF table[k].last_transaction_version <= r.last_transaction_version
    THEN [table EXCEPT ![k] =
            [r EXCEPT !.volume = table[k].volume + r.volume]]
    ELSE table

RECURSIVE insert_current_collection_volumes(_, _, _)
insert_current_collection_volumes(table, items_to_insert, i) ==
    IF i > Len(items_to_insert) THEN table
    ELSE insert_current_collection_volumes(
            upsert_current_volume(table, items_to_insert[i].collection_data_id_hash,
                                  items_to_insert[i]),
            items_to_insert, i + 1)

RECURSIVE insert_current_token_volumes(_, _, _)
insert_current_token_volumes(table, items_to_insert, i) ==
    IF i > Len(items_to_insert) THEN table
    ELSE insert_current_token_volumes(
            upsert_current_volume(table, items_to_insert[i].token_data_id_hash,
                                  items_to_insert[i]),
            items_to_insert, i + 1)

\* insert_collection_volumes / insert_token_volumes:
\* ON CONFLICT (last_transaction_version) DO NOTHING.
RECURSIVE insert_volumes(_, _, _)
insert_volumes(table, items_to_insert, i) ==
    IF i > Len(items_to_insert) THEN table
    ELSE LET r == items_to_insert[i]
             k == r.last_transaction_version
         IN insert_volumes(
                IF k \in DOMAIN table THEN table ELSE HashMap_insert(table, k, r),
                items_to_insert, i + 1)

\* The order in which insert_to_db_impl writes the derived tables.
InsertOrder ==
    <<"token_activities", "current_marketplace_listings",
      "current_collection_volumes", "collection_volumes",
      "current_token_volumes", "token_volumes">>

has_nul(s) == contains(s, NUL)
opt_has_nul(o) == IsSome(o) /\ has_nul(o[1])

\* The storage engine rejects a text value that holds a NUL character: the
\* text columns of one row of the named table.
scan_row_has_nul(table_name, r) ==
    CASE table_name = "token_activities" ->
            \/ has_nul(r.event_account_address) \/ has_nul(r.token_data_id_hash)
            \/ has_nul(r.creator_address) \/ has_nul(r.collection_name)
            \/ has_nul(r.name) \/ has_nul(r.transfer_type)
            \/ has_nul(r.collection_data_id_hash)
            \/ opt_has_nul(r.from_address) \/ opt_has_nul(r.to_address)
            \/ opt_has_nul(r.coin_type)
      [] table_name = "current_marketplace_listings" ->
            \/ has_nul(r.collection_data_id_hash) \/ has_nul(r.market_address)
            \/ has_nul(r.token_data_id_hash) \/ has_nul(r.creator_address)
            \/ has_nul(r.collection_name) \/ has_nul(r.name)
            \/ has_nul(r.seller) \/ has_nul(r.event_type)
      [] table_name \in {"current_collection_volumes", "collection_volumes"} ->
            has_nul(r.collection_data_id_hash)
      [] OTHER -> has_nul(r.token_data_id_hash)

strip_opt(o) == IF IsSome(o) THEN Some(strip_nul(o[1])) ELSE o

\* database::clean_data_for_db on one row: every string of the row loses its
\* NUL characters.
scan_clean_row(table_name, r) ==
    CASE table_name = "token_activities" ->
            [r EXCEPT !.event_account_address = strip_nul(@),
                      !.token_data_id_hash = strip_nul(@),
                      !.creator_address = strip_nul(@),
                      !.collection_name = strip_nul(@),
                      !.name = strip_nul(@),
                      !.transfer_type = strip_nul(@),
                      !.collection_data_id_hash = strip_nul(@),
                      !.from_address = strip_opt(@),
                      !.to_address = strip_opt(@),
                      !.coin_type = strip_opt(@)]
      [] table_name = "current_marketplace_listings" ->
            [r EXCEPT !.collection_data_id_hash = strip_nul(@),
                      !.market_address = strip_nul(@),
                      !.token_data_id_hash = strip_nul(@),
                      !.creator_address = strip_nul(@),
                      !.collection_name = strip_nul(@),
                      !.name = strip_nul(@),
                      !.seller = strip_nul(@),
                      !.event_type = strip_nul(@)]
      [] table_name \in {"current_collection_volumes", "collection_volumes"} ->
            [r EXCEPT !.collection_data_id_hash = strip_nul(@)]
      [] OTHER ->
            [r EXCEPT !.token_data_id_hash = strip_nul(@)]

Range(f) == {f[x] : x \in DOMAIN f}

\* The rows of the named table among the rows built of one transaction.
rows_of_table(table_name, built) ==
    CASE table_name = "token_activities" -> Range(built.activities.rows)
      [] table_name = "current_marketplace_listings" -> Range(built.listings.rows)
      [] table_name = "current_collection_volumes" ->
             Range(built.volumes.rows.current_collection_volumes)
      [] table_name = "collection_volumes" ->
             Range(built.volumes.rows.collection_volumes)
      [] table_name = "current_token_volumes" ->
             Range(built.volumes.rows.current_token_volumes)
      [] table_name = "token_volumes" -> Range(built.volumes.rows.token_volumes)

\* The rows the builders make of the transactions of AllTransactions for the
\* named table.
BuiltRows(table_name) ==
    UNION {rows_of_table(table_name, FromTransactionTable[txn]) : txn \in AllTransactions}

\* Rows and their sanitized copies.
with_cleaned(table_name, rows) ==
    rows \cup {scan_clean_row(table_name, r) : r \in rows}

KnownRows(table_name) == with_cleaned(table_name, BuiltRows(table_name))

\* What the storage engine and the sanitizer make of one row.
scan_row(table_name, r) ==
    [has_nul |-> scan_row_has_nul(table_name, r),
     cleaned |-> scan_clean_row(table_name, r)]

\* scan_row tabulated once for the known rows.
RowTable ==
    [table_name \in Range(InsertOrder) |->
        [r \in KnownRows(table_name) |-> scan_row(table_name, r)]]

row_entry(table_name, r) ==
    lookup_or(RowTable[table_name], r, scan_row(table_name, r))

row_has_nul(table_name, r) == row_entry(table_name, r).has_nul

rows_have_nul(table_name, items) ==
    \E i \in 1..Len(items) : row_has_nul(table_name, items[i])

clean_row(table_name, r) == row_entry(table_name, r).cleaned

\* database::clean_data_for_db(items, true) on the rows of one table.
clean_data_for_db(table_name, items) ==
    [i \in 1..Len(items) |-> clean_row(table_name, items[i])]

\* The sanitized copies of all row sets (the second closure of insert_to_db).
clean_row_sets(rows) ==
    [t \in DOMAIN rows |-> clean_data_for_db(t, rows[t])]

\* One insert_* call of insert_to_db_impl applied to the tables as the open
\* transaction sees them.
apply_insert(table_name, db, rows, default_version) ==
    CASE table_name = "token_activities" ->
            [db EXCEPT !.token_activities =
                insert_token_activities(@, rows.token_activities, 1)]
      [] table_name = "current_marketplace_listings" ->
            [db EXCEPT !.current_marketplace_listings =
                insert_current_marketplace_listings(
                    @, rows.current_marketplace_listings, 1, default_version)]
      [] table_name = "current_collection_volumes" ->
            [db EXCEPT !.current_collection_volumes =
                insert_current_collection_volumes(@, rows.current_collection_volumes, 1)]
      [] table_name = "collection_volumes" ->
            [db EXCEPT !.collection_volumes =
                insert_volumes(@, rows.collection_volumes, 1)]
      [] table_name = "current_token_volumes" ->
            [db EXCEPT !.current_token_volumes =
                insert_current_token_volumes(@, rows.current_token_volumes, 1)]
      [] table_name = "token_volumes" ->
            [db EXCEPT !.token_volumes =
                insert_volumes(@, rows.token_volumes, 1)]

\* insert_to_db_impl from its k-th insert on: each insert runs only if the
\* ones before it returned Ok ("?"); insert number fail (0: none) returns an
\* error.  On Err, db is what the open transaction had written so far.
RECURSIVE insert_to_db_impl(_, _, _, _, _)
insert_to_db_impl(db, rows, k, fail, default_version) ==
    IF k > Len(InsertOrder) THEN [ok |-> TRUE, db |-> db]
    ELSE IF fail = k THEN [ok |-> FALSE, db |-> db]
    ELSE insert_to_db_impl(apply_insert(InsertOrder[k], db, rows, default_version),
                           rows, k + 1, fail, default_version)

\* The outcome of a transaction whose closure returned r, on the tables db.
commit_or_rollback(db, r) == IF r.ok THEN r ELSE [ok |-> FALSE, db |-> db]

\* A mutant of run_transaction: the writes made before the error stay.
run_transaction_no_rollback(db, rows, fail, default_version) ==
    insert_to_db_impl(db, rows, 1, fail, default_version)

\* conn.build_transaction().read_write().run(closure): the closure's writes
\* are committed when it returns Ok and rolled back when it returns Err.
run_transaction(db, rows, fail, default_version) ==
    commit_or_rollback(db, insert_to_db_impl(db, rows, 1, fail, default_version))

\* The insert (0: none) at which the storage engine fails on its own in one
\* transaction.
FailPoints == 0..Len(InsertOrder)

\* The first insert (0: none) whose rows hold a NUL character.
rejected_insert(rows) ==
    LET bad == {k \in 1..Len(InsertOrder) :
                   rows_have_nul(InsertOrder[k], rows[InsertOrder[k]])}
    IN IF bad = {} THEN 0 ELSE CHOOSE k \in bad : \A j \in bad : k <= j

all_rows_clean(rows) == rejected_insert(rows) = 0

\* The inserts at which a transaction can return an error when rejected is
\* the first insert with a NUL in its rows: any of them when the engine fails
\* on its own, and insert number rejected once the transaction gets to it.
Failures(rejected) == IF rejected = 0 THEN FailPoints ELSE 1..rejected

\* What insert_to_db returns after a second transaction that ended as second.
retry_outcome(second, clean) ==
    [ok |-> second.ok, db |-> second.db, attempts |-> 2,
     first_ok |-> FALSE, second_ok |-> second.ok, second_clean |-> clean]

\* The match on the result of the first transaction: Ok is returned as it
\* is, Err runs the second transaction over retry_rows.
match_first(first, retry_rows, retry_rejected, default_version) ==
    IF first.ok
    THEN {[ok |-> TRUE, db |-> first.db, attempts |-> 1,
           first_ok |-> TRUE, second_ok |-> FALSE, second_clean |-> FALSE]}
    ELSE {retry_outcome(run_transaction(first.db, retry_rows, fail2, default_version),
                        retry_rejected = 0)
          : fail2 \in Failures(retry_rejected)}

\* A mutant of insert_to_db: the second transaction takes the row sets as
\* they are.
insert_to_db_retry_unsanitized(db, rows, default_version) ==
    LET rejected == rejected_insert(rows)
    IN UNION {match_first(first, rows, rejected, default_version) :
                 first \in {run_transaction(db, rows, fail1, default_version) :
                               fail1 \in Failures(rejected)}}

\* insert_to_db: one transaction over the row sets; if it fails, one more
\* transaction over the sanitized row sets, whose result is the call's.  The
\* value is the set of outcomes over the failures of the storage engine.
insert_to_db(db, rows, default_version) ==
    LET rejected == rejected_insert(rows)
        cleaned == clean_row_sets(rows)
        retry_rejected == rejected_insert(cleaned)
    IN UNION {match_first(first, cleaned, retry_rejected, default_version) :
                 first \in {run_transaction(db, rows, fail1, default_version) :
                               fail1 \in Failures(rejected)}}

(* -------------------------------- state -------------------------------- *)
VARIABLES
    chain,                        \* version -> transaction (never changes)
    listing_version_default,      \* default of current_marketplace_listings.last_transaction_version
    token_activities,             \* key -> row
    current_marketplace_listings, \* token_data_id_hash -> row
    current_collection_volumes,   \* collection_data_id_hash -> row
    collection_volumes,           \* last_transaction_version -> row
    current_token_volumes,        \* token_data_id_hash -> row
    token_volumes,                \* last_transaction_version -> row
    calls,                        \* number of process_transactions calls so far
    last,                         \* what the last call did
    log,                          \* the version ranges committed, in commit order
    workers                       \* concurrent workers: their open transactions

tables ==
    <<token_activities, current_marketplace_listings, current_collection_volumes,
      collection_volumes, current_token_volumes, token_volumes>>

vars == <<chain, listing_version_default, tables, calls, last, log, workers>>

\* The committed contents of the six tables as one record.
DB ==
    [token_activities |-> token_activities,
     current_marketplace_listings |-> current_marketplace_listings,
     current_collection_volumes |-> current_collection_volumes,
     collection_volumes |-> collection_volumes,
     current_token_volumes |-> current_token_volumes,
     token_volumes |-> token_volumes]

NoCall ==
    [start |-> 0, end |-> 0, result |-> "none", attempts |-> 0,
     first_ok |-> FALSE, second_ok |-> FALSE, second_clean |-> FALSE]

Init ==
    /\ \E bodies \in [1..MaxVersion -> TxnBodies] :
          chain = [v \in 1..MaxVersion |-> MakeTransaction(bodies[v], v)]
    /\ listing_version_default \in {None, Some(0)}
    /\ token_activities = EmptyMap
    /\ current_marketplace_listings = EmptyMap
    /\ current_collection_volumes = EmptyMap
    /\ collection_volumes = EmptyMap
    /\ current_token_volumes = EmptyMap
    /\ token_volumes = EmptyMap
    /\ calls = 0
    /\ last = NoCall
    /\ log = <<>>
    /\ workers = EmptyMap

\* The batch the driver hands over for the version range [start, end].
Batch(start, end) == [i \in 1..(end - start + 1) |-> chain[start + i - 1]]

\* process_transactions(transactions, start_version, end_version): build the
\* row sets of the whole batch, then insert_to_db.  A decode error panics
\* before anything is written.
process_transactions(start, end) ==
    /\ calls < MaxCalls
    /\ calls' = calls + 1
    /\ UNCHANGED <<chain, listing_version_default, workers>>
    /\ LET built == build_row_sets(Batch(start, end))
       IN IF built.panic
          THEN /\ UNCHANGED <<tables, log>>
               /\ last' = [NoCall EXCEPT !.start = start, !.end = end,
                                         !.result = "panic"]
          ELSE \E tx_result \in insert_to_db(DB, built.rows, listing_version_default) :
                    /\ token_activities' = tx_result.db.token_activities
                    /\ current_marketplace_listings' =
                           tx_result.db.current_marketplace_listings
                    /\ current_collection_volumes' =
                           tx_result.db.current_collection_volumes
                    /\ collection_volumes' = tx_result.db.collection_volumes
                    /\ current_token_volumes' = tx_result.db.current_token_volumes
                    /\ token_volumes' = tx_result.db.token_volumes
                    /\ last' = [start |-> start, end |-> end,
                                result |-> IF tx_result.ok THEN "ok" ELSE "err",
                                attempts |-> tx_result.attempts,
                                first_ok |-> tx_result.first_ok,
                                second_ok |-> tx_result.second_ok,
                                second_clean |-> tx_result.second_clean]
                    /\ log' = IF tx_result.ok THEN Append(log, <<start, end>>) ELSE log

Next ==
    \E start \in 1..MaxVersion, end \in 1..MaxVersion :
        start <= end /\ process_transactions(start, end)

Spec == Init /\ [][Next]_vars

(* -------------------------- concurrent workers ------------------------- *)
\* Two workers, each with one batch over its own version range and its own
\* connection.  A statement of insert_to_db_impl takes the row lock of every
\* row it inserts or upserts, in the order of its VALUES list, and a lock is
\* held until the transaction commits or rolls back.
WorkerIds == {"A", "B"}

\* Tokens of collections whose names differ from "Apes" by a NUL character
\* only.
TokenX == [creator |-> "0xc1", collection |-> "Ape" \o NUL \o "s", name |-> "a2"]
TokenY == [creator |-> "0xc1", collection |-> "Apes" \o NUL, name |-> "a1"]

BuyX == [typ |-> TopazBuyTag, data |-> BuyPayload(TokenX, 1, "0xs1")]
BuyY == [typ |-> TopazBuyTag, data |-> BuyPayload(TokenY, 1, "0xs1")]

\* The bodies of the transactions the workers process: trades on one or two
\* tokens, with and without NUL characters in their strings.
WorkerBodies ==
    {[type |-> "user", events |-> <<Buy1>>],
     [type |-> "user", events |-> <<Buy2>>],
     [type |-> "user", events |-> <<Buy1, Buy3>>],
     [type |-> "user", events |-> <<BuyX, BuyY>>]}

\* The conflict target of the insert into the named table.
RowKey(table_name, r) ==
    CASE table_name = "token_activities" -> TokenActivityKey(r)
      [] table_name \in {"current_marketplace_listings", "current_token_volumes"} ->
             r.token_data_id_hash
      [] table_name = "current_collection_volumes" -> r.collection_data_id_hash
      [] OTHER -> r.last_transaction_version

\* The rows insert_to_db_impl writes from its k-th insert on, as <<insert
\* number, key>>, in write order.
RECURSIVE LockOrder(_, _)
LockOrder(rows, k) ==
    IF k > Len(InsertOrder) THEN <<>>
    ELSE [i \in 1..Len(rows[InsertOrder[k]]) |->
             <<k, RowKey(InsertOrder[k], rows[InsertOrder[k]][i])>>]
         \o LockOrder(rows, k + 1)

\* A worker at the start of a transaction of insert_to_db over rows.
StartAttempt(range, attempt, rows) ==
    [range |-> range, attempt |-> attempt, pos |-> 0, status |-> "running",
     order |-> LockOrder(rows, 1), rejected |-> rejected_insert(rows)]

\* The row sets of the attempt a worker is in: as built on the first, the
\* sanitized copies on the second.
AttemptRows(range, attempt) ==
    IF attempt = 1 THEN build_row_sets(Batch(range[1], range[2])).rows
    ELSE clean_row_sets(build_row_sets(Batch(range[1], range[2])).rows)

\* The version ranges of the workers: disjoint, A's below B's.
WorkerRanges ==
    {[w \in WorkerIds |-> IF w = "A" THEN <<a[1], a[2]>> ELSE <<a[3], a[4]>>] :
        a \in {b \in [1..4 -> 1..MaxVersion] : b[1] <= b[2] /\ b[2] < b[3] /\ b[3] <= b[4]}}

InitWorkers ==
    /\ \E bodies \in [1..MaxVersion -> WorkerBodies] :
          chain = [v \in 1..MaxVersion |-> MakeTransaction(bodies[v], v)]
    /\ listing_version_default \in {None, Some(0)}
    /\ token_activities = EmptyMap
    /\ current_marketplace_listings = EmptyMap
    /\ current_collection_volumes = EmptyMap
    /\ collection_volumes = EmptyMap
    /\ current_token_volumes = EmptyMap
    /\ token_volumes = EmptyMap
    /\ calls = 0
    /\ last = NoCall
    /\ log = <<>>
    /\ \E ranges \in WorkerRanges :
          workers = [w \in WorkerIds |->
                        StartAttempt(ranges[w], 1, AttemptRows(ranges[w], 1))]

\* The row locks worker w holds.
HeldBy(w) ==
    IF workers[w].status = "running"
    THEN {workers[w].order[i] : i \in 1..workers[w].pos}
    ELSE {}

\* The next row worker w writes.
NextLock(w) == workers[w].order[workers[w].pos + 1]

\* Worker w has a next row to write: its statement is not one the storage
\* engine rejects for a NUL character.
Wants(w) ==
    /\ workers[w].status = "running"
    /\ workers[w].pos < Len(workers[w].order)
    /\ workers[w].rejected = 0 \/ NextLock(w)[1] < workers[w].rejected

\* The row worker w writes next is locked by another worker.
Blocked(w) ==
    /\ Wants(w)
    /\ \E o \in WorkerIds \ {w} : NextLock(w) \in HeldBy(o)

\* Worker w writes its next row and holds the row's lock from then on.
Lock(w) ==
    /\ Wants(w)
    /\ ~Blocked(w)
    /\ workers' = [workers EXCEPT ![w].pos = @ + 1]
    /\ UNCHANGED <<chain, listing_version_default, tables, calls, last, log>>

\* The transaction of worker w fails and is rolled back: after the first
\* one insert_to_db starts the second over the sanitized copies, after the
\* second the batch has failed.
Fail(w) ==
    /\ workers[w].status = "running"
    /\ workers' = [workers EXCEPT ![w] =
                      IF @.attempt = 1
                      THEN StartAttempt(@.range, 2, AttemptRows(@.range, 2))
                      ELSE [@ EXCEPT !.status = "failed"]]
    /\ UNCHANGED <<chain, listing_version_default, tables, calls, last, log>>

\* The tables after the commit of a transaction that wrote rows.
Committed(rows) == insert_to_db_impl(DB, rows, 1, 0, listing_version_default).db

\* Worker w has written every row: its transaction commits.
Commit(w) ==
    /\ workers[w].status = "running"
    /\ workers[w].pos = Len(workers[w].order)
    /\ workers[w].rejected = 0
    /\ \E db \in {Committed(AttemptRows(workers[w].range, workers[w].attempt))} :
          /\ token_activities' = db.token_activities
          /\ current_marketplace_listings' = db.current_marketplace_listings
          /\ current_collection_volumes' = db.current_collection_volumes
          /\ collection_volumes' = db.collection_volumes
          /\ current_token_volumes' = db.current_token_volumes
          /\ token_volumes' = db.token_volumes
    /\ workers' = [workers EXCEPT ![w].status = "committed"]
    /\ log' = Append(log, workers[w].range)
    /\ UNCHANGED <<chain, listing_version_default, calls, last>>

NextWorkers == \E w \in WorkerIds : Lock(w) \/ Fail(w) \/ Commit(w)

SpecWorkers == InitWorkers /\ [][NextWorkers]_vars

(* ---------------------- a chain of one repeated body ------------------- *)
\* The chain holds the same body at every version.
InitBuilders ==
    /\ \E body \in BuilderBodies :
          chain = [v \in 1..MaxVersion |-> MakeTransaction(body, v)]
    /\ listing_version_default \in {None, Some(0)}
    /\ token_activities = EmptyMap
    /\ current_marketplace_listings = EmptyMap
    /\ current_collection_volumes = EmptyMap
    /\ collection_volumes = EmptyMap
    /\ current_token_volumes = EmptyMap
    /\ token_volumes = EmptyMap
    /\ calls = 0
    /\ last = NoCall
    /\ log = <<>>
    /\ workers = EmptyMap

SpecBuilders == InitBuilders /\ [][Next]_vars

(* ======================== properties of the claims ===================== *)
\* The row sets process_transactions hands over for a version range.
HandedRows(start, end) == build_row_sets(Batch(start, end)).rows

\* The four volume rows the Volume builder makes of event i of transaction
\* txn alone; None when the event yields none.
EventVolume(txn, i) ==
    IF txn.type # "user" THEN None
    ELSE LET e == txn.events[i]
             d == from_event(e.typ, e.data)
         IN IF ~d.ok \/ d.value = None THEN None
            ELSE CurrentCollectionVolume_from_parse_event(
                     e.typ, e, d.value[1], txn.version, txn.timestamp)

\* The qualifying trade events <<version, index>> of the versions vs.
Trades(vs) ==
    {p \in UNION {{<<v, i>> : i \in 1..Len(chain[v].events)} : v \in vs} :
        EventVolume(chain[p[1]], p[2]) # None}

TokenTrades(k, vs) ==
    {p \in Trades(vs) :
        EventVolume(chain[p[1]], p[2])[1].current_token_volume.token_data_id_hash = k}

CollectionTrades(k, vs) ==
    {p \in Trades(vs) :
        EventVolume(chain[p[1]], p[2])[1].current_collection_volume.collection_data_id_hash = k}

\* The sum of the volumes of a set of trade events.
RECURSIVE SumVolumes(_)
SumVolumes(ps) ==
    IF ps = {} THEN 0
    ELSE LET p == CHOOSE q \in ps : TRUE
         IN EventVolume(chain[p[1]], p[2])[1].collection_volume.volume
            + SumVolumes(ps \ {p})

TokenKeys == {TokenDataIdType_to_string(Token1), TokenDataIdType_to_string(Token2)}
CollectionKeys == {get_collection_data_id_hash(Token1)}
ListingKeys == {to_hash(Token1), to_hash(Token2)}

\* The last step was a call of process_transactions that reached insert_to_db.
Called == calls' = calls + 1 /\ last'.result # "panic"

\* The current-state tables.
current_tables ==
    <<current_marketplace_listings, current_collection_volumes, current_token_volumes>>

\* C1 (as claimed): when a call commits the same version range as the call
\* right before it, which committed too, every row of the three current-state
\* tables is what it was after the first commit.
C1_RedeliveryLeavesCurrentRows ==
    [][(/\ calls' = calls + 1
        /\ last.result = "ok" /\ last'.result = "ok"
        /\ last'.start = last.start /\ last'.end = last.end)
       => current_tables' = current_tables]_vars

\* The versions committed so far are 1..MaxVersion, each once, in ascending
\* order of commit.
DeliveredInOrder ==
    /\ Len(log) > 0
    /\ log[1][1] = 1
    /\ log[Len(log)][2] = MaxVersion
    /\ \A i \in 1..(Len(log) - 1) : log[i + 1][1] = log[i][2] + 1

\* The trades on token key k lie in pairwise different transactions.
StrictlyIncreasingVersions(k) ==
    \A p, q \in TokenTrades(k, 1..MaxVersion) : p # q => p[1] # q[1]

\* C2 (as claimed): once every version has been committed, in version order
\* and in any grouping into batches, the stored volume of a token whose
\* trades have strictly increasing versions is the sum of their amounts.
C2_TokenVolumeIsSum ==
    DeliveredInOrder =>
        \A k \in TokenKeys :
            (StrictlyIncreasingVersions(k) /\ TokenTrades(k, 1..MaxVersion) # {})
            => /\ k \in DOMAIN current_token_volumes
               /\ current_token_volumes[k].volume
                      = SumVolumes(TokenTrades(k, 1..MaxVersion))

\* C3 (as claimed): in the row sets of the last call, the current-volume row
\* of a key carries the sum of the volumes of the batch's trades on that key.
C3_BatchRowCarriesSum ==
    last.result \in {"ok", "err"} =>
        LET rows == HandedRows(last.start, last.end)
            vs == last.start..last.end
        IN /\ \A i \in 1..Len(rows.current_collection_volumes) :
                  LET r == rows.current_collection_volumes[i]
                  IN r.volume = SumVolumes(CollectionTrades(r.collection_data_id_hash, vs))
           /\ \A i \in 1..Len(rows.current_token_volumes) :
                  LET r == rows.current_token_volumes[i]
                  IN r.volume = SumVolumes(TokenTrades(r.token_data_id_hash, vs))

\* The version of the transaction a listing row was built from: the rows
\* carry no version of their own, the transaction's timestamp identifies it.
ListingRowVersion(r) ==
    CHOOSE v \in 1..MaxVersion : chain[v].timestamp = r.inserted_at

\* C4 (as claimed): a row handed to a current-state table whose version is
\* lower than or equal to the version of the stored row of its key leaves
\* every column of the stored row as it was.
C4_StaleRowRejected ==
    [][Called =>
        LET rows == HandedRows(last'.start, last'.end)
        IN /\ \A i \in 1..Len(rows.current_marketplace_listings) :
                  LET r == rows.current_marketplace_listings[i]
                      k == r.token_data_id_hash
                  IN (/\ k \in DOMAIN current_marketplace_listings
                      /\ ListingRowVersion(r)
                             <= ListingRowVersion(current_marketplace_listings[k]))
                     => current_marketplace_listings'[k] = current_marketplace_listings[k]
           /\ \A i \in 1..Len(rows.current_collection_volumes) :
                  LET r == rows.current_collection_volumes[i]
                      k == r.collection_data_id_hash
                  IN (/\ k \in DOMAIN current_collection_volumes
                      /\ r.last_transaction_version
                             <= current_collection_volumes[k].last_transaction_version)
                     => current_collection_volumes'[k] = current_collection_volumes[k]
           /\ \A i \in 1..Len(rows.current_token_volumes) :
                  LET r == rows.current_token_volumes[i]
                      k == r.token_data_id_hash
                  IN (/\ k \in DOMAIN current_token_volumes
                      /\ r.last_transaction_version
                             <= current_token_volumes[k].last_transaction_version)
                     => current_token_volumes'[k] = current_token_volumes[k]]_vars

\* Exactly two batches have committed, over disjoint version ranges.
TwoDisjointBatches ==
    /\ Len(log) = 2
    /\ \/ log[1][2] < log[2][1]
       \/ log[2][2] < log[1][1]

\* C5 (as claimed): after two batches over disjoint ranges, each with trades
\* on a key, have committed in either order, the stored volume of the key is
\* the sum of the trades of both.
C5_VolumeCommutes ==
    TwoDisjointBatches =>
        LET vs1 == log[1][1]..log[1][2]
            vs2 == log[2][1]..log[2][2]
        IN /\ \A k \in TokenKeys :
                  (TokenTrades(k, vs1) # {} /\ TokenTrades(k, vs2) # {})
                  => /\ k \in DOMAIN current_token_volumes
                     /\ current_token_volumes[k].volume
                            = SumVolumes(TokenTrades(k, vs1 \cup vs2))
           /\ \A k \in CollectionKeys :
                  (CollectionTrades(k, vs1) # {} /\ CollectionTrades(k, vs2) # {})
                  => /\ k \in DOMAIN current_collection_volumes
                     /\ current_collection_volumes[k].volume
                            = SumVolumes(CollectionTrades(k, vs1 \cup vs2))

\* The listing rows a batch hands over for token key k (at most one).
ListingRowsOf(k, range) ==
    LET rows == HandedRows(range[1], range[2]).current_marketplace_listings
    IN {rows[i] : i \in {j \in 1..Len(rows) : rows[j].token_data_id_hash = k}}

\* The columns of a stored listing row that the inserted struct carries.
ListingColumns(r) ==
    [collection_data_id_hash |-> r.collection_data_id_hash,
     market_address |-> r.market_address,
     token_data_id_hash |-> r.token_data_id_hash,
     property_version |-> r.property_version,
     creator_address |-> r.creator_address,
     collection_name |-> r.collection_name,
     name |-> r.name,
     seller |-> r.seller,
     amount |-> r.amount,
     price |-> r.price,
     event_type |-> r.event_type,
     inserted_at |-> r.inserted_at]

\* C6 (as claimed): after two batches over disjoint ranges, each with a
\* listing event for a token, have committed in either order, the stored
\* listing row of the token is the row of the batch with the higher versions.
C6_HigherVersionListingWins ==
    TwoDisjointBatches =>
        LET hi == IF log[1][1] > log[2][1] THEN log[1] ELSE log[2]
        IN \A k \in ListingKeys :
               (ListingRowsOf(k, log[1]) # {} /\ ListingRowsOf(k, log[2]) # {})
               => /\ k \in DOMAIN current_marketplace_listings
                  /\ ListingColumns(current_marketplace_listings[k])
                         \in ListingRowsOf(k, hi)

\* C7 (as claimed): after a batch whose listing event for a token is a List
\* and then a batch of higher versions whose listing event for it is a Buy
\* have committed, the stored row has an empty market_address and the seller
\* and price of the Buy.
C7_BuyAfterListClearsMarket ==
    (Len(log) = 2 /\ log[1][2] < log[2][1]) =>
        \A k \in ListingKeys :
            \A l \in ListingRowsOf(k, log[1]) : \A b \in ListingRowsOf(k, log[2]) :
                (contains(l.event_type, "List") /\ contains(b.event_type, "Buy"))
                => /\ k \in DOMAIN current_marketplace_listings
                   /\ current_marketplace_listings[k].market_address = ""
                   /\ current_marketplace_listings[k].seller = b.seller
                   /\ current_marketplace_listings[k].price = b.price

\* The tables after every insert of insert_to_db_impl has been applied to
\* the row sets rows, starting from the tables as they are.
AllInserted(rows) ==
    insert_to_db_impl(DB, rows, 1, 0, listing_version_default).db

\* C8: a call of process_transactions that reports success has applied
\* every insert of its row sets (as built, or sanitized on the second
\* attempt); a call that does not report success leaves the six tables as
\* they were.
C8_AllOrNothing ==
    [][calls' = calls + 1 =>
        IF last'.result = "ok"
        THEN \E rows \in {HandedRows(last'.start, last'.end)} :
                 \/ last'.attempts = 1 /\ DB' = AllInserted(rows)
                 \/ last'.attempts = 2
                    /\ \E cleaned \in {clean_row_sets(rows)} : DB' = AllInserted(cleaned)
        ELSE tables' = tables]_vars

\* C8 witness: a call that had rows to write reported an error after both
\* attempts.
C8_FailedCallWithRows ==
    /\ last.result = "err"
    /\ last.attempts = 2
    /\ Len(HandedRows(last.start, last.end).token_activities) > 0
    /\ Len(HandedRows(last.start, last.end).current_token_volumes) > 0

\* C9: a call of insert_to_db makes one or two attempts; it makes the second
\* exactly when the first failed; the second works on sanitized row sets and,
\* when it succeeds, its writes are those inserts applied to the tables as
\* they were before the call; the call fails exactly when both attempts fail.
C9_RetryOnceSanitized ==
    [][Called =>
        /\ last'.attempts \in {1, 2}
        /\ (last'.attempts = 2) <=> ~last'.first_ok
        /\ (last'.attempts = 2) => last'.second_clean
        /\ (last'.result = "err") <=> (~last'.first_ok /\ ~last'.second_ok)
        /\ (last'.attempts = 2 /\ last'.result = "ok")
           => \E cleaned \in {clean_row_sets(HandedRows(last'.start, last'.end))} :
                  DB' = AllInserted(cleaned)
        /\ (last'.attempts = 1)
           => \E rows \in {HandedRows(last'.start, last'.end)} :
                  DB' = AllInserted(rows)]_vars

\* C9 witness: the first attempt failed on a row set with a NUL character
\* and the second attempt, over the sanitized rows, committed.
C9_RetrySucceeded ==
    /\ last.result = "ok"
    /\ last.attempts = 2
    /\ ~all_rows_clean(HandedRows(last.start, last.end))
    /\ current_token_volumes # EmptyMap

\* Event i of the transaction at version v has a type tag of the dispatch
\* table and a payload that does not deserialize.
MalformedEvent(v, i) ==
    /\ chain[v].type = "user"
    /\ i <= Len(chain[v].events)
    /\ TokenEventVariant(chain[v].events[i].typ) # "Unrecognized"
    /\ ~from_event(chain[v].events[i].typ, chain[v].events[i].data).ok

\* Event i of the transaction at version v decodes to a variant.
DecodedEvent(v, i) ==
    /\ chain[v].type = "user"
    /\ i <= Len(chain[v].events)
    /\ from_event(chain[v].events[i].typ, chain[v].events[i].data).ok
    /\ from_event(chain[v].events[i].typ, chain[v].events[i].data).value # None

\* C10 (as claimed): a call over a range with a malformed event does not
\* abort; when it commits, the other events of the range that decode have
\* their activity rows and the malformed event has none.
C10_MalformedEventIsSkipped ==
    (/\ last.result # "none"
     /\ \E v \in last.start..last.end : \E i \in 1..Len(chain[v].events) : MalformedEvent(v, i))
    => /\ last.result # "panic"
       /\ last.result = "ok" =>
              \A v \in last.start..last.end : \A i \in 1..Len(chain[v].events) :
                  LET k == <<v, "0xe1", 7, i>>
                  IN /\ DecodedEvent(v, i) => k \in DOMAIN token_activities
                     /\ MalformedEvent(v, i) => k \notin DOMAIN token_activities

\* The type tag of an event is in the decode dispatch table.
Recognized(e) == TokenEventVariant(e.typ) # "Unrecognized"

\* Event i of the user transaction at version v has a type tag outside the
\* dispatch table.
UnrecognizedEvent(v, i) ==
    /\ chain[v].type = "user"
    /\ i <= Len(chain[v].events)
    /\ ~Recognized(chain[v].events[i])

\* The transaction without its events of unrecognized type (the other events
\* keep their guid and sequence number).
WithoutUnrecognized(txn) == [txn EXCEPT !.events = SelectSeq(txn.events, Recognized)]

\* The key of the activity row of event i of the transaction at version v.
ActivityKeyOf(v, i) ==
    <<v, chain[v].events[i].account_address, chain[v].events[i].creation_number,
      chain[v].events[i].sequence_number>>

\* What the three builders make of a transaction without its unrecognized
\* events, tabulated once for the transactions of the chains.
WithoutUnrecognizedTable ==
    [txn \in AllTransactions |-> from_transactions(WithoutUnrecognized(txn))]

rows_without_unrecognized(txn) ==
    lookup_or(WithoutUnrecognizedTable, txn, from_transactions(WithoutUnrecognized(txn)))

\* C11: an event whose type tag is outside the dispatch table yields no
\* error and no row: the three builders make of a transaction exactly what
\* they make of it without its unrecognized events, and no activity row is
\* ever stored under the key of such an event.
C11_UnrecognizedEventIsInert ==
    /\ \A v \in 1..MaxVersion :
           derived_rows(chain[v]) = rows_without_unrecognized(chain[v])
    /\ \A v \in 1..MaxVersion : \A i \in 1..Len(chain[v].events) :
           UnrecognizedEvent(v, i) => ActivityKeyOf(v, i) \notin DOMAIN token_activities

\* C11 witness: a committed batch held an unrecognized event, and the event
\* after it in the same transaction has its activity row and its listing row.
C11_SiblingOfUnrecognizedStored ==
    /\ last.result = "ok"
    /\ \E v \in last.start..last.end :
           /\ UnrecognizedEvent(v, 1)
           /\ Len(chain[v].events) = 2
           /\ ActivityKeyOf(v, 2) \in DOMAIN token_activities
           /\ \E k \in DOMAIN current_marketplace_listings :
                  current_marketplace_listings[k].inserted_at = chain[v].timestamp

\* The workers of S wait for one another: each one's next row is locked by
\* another worker of S.
LockCycle(S) ==
    /\ S # {}
    /\ \A w \in S : Blocked(w) /\ \E o \in S \ {w} : NextLock(w) \in HeldBy(o)

\* C12 (as claimed): workers that commit batches over disjoint version
\* ranges never wait for one another in a cycle.
C12_NoLockCycle == \A S \in SUBSET WorkerIds : ~LockCycle(S)

\* The versions of the ranges committed so far.
CommittedVersions(l) == UNION {l[n][1]..l[n][2] : n \in 1..Len(l)}

\* The events of the committed versions that decode to a variant.
CommittedEvents(l) ==
    {p \in UNION {{<<v, i>> : i \in 1..Len(chain[v].events)} : v \in CommittedVersions(l)} :
        DecodedEvent(p[1], p[2])}

\* The activity row of event i of the transaction at version v, as the
\* storage engine takes it: without NUL characters.
StoredActivityOf(v, i) ==
    clean_row("token_activities",
        TokenActivity_from_parsed_event(
            chain[v].events[i].typ, chain[v].events[i],
            from_event(chain[v].events[i].typ, chain[v].events[i].data).value[1],
            v, chain[v].timestamp))

\* C13: a call of process_transactions changes no row that token_activities
\* already holds, and after it the table holds one row for each decoded
\* event of the versions committed so far and no other row, with the
\* columns the event's first delivery wrote.
C13_ActivitiesWriteOnce ==
    [][calls' = calls + 1 =>
        /\ \A k \in DOMAIN token_activities :
               k \in DOMAIN token_activities' /\ token_activities'[k] = token_activities[k]
        /\ Range(token_activities')
               = {StoredActivityOf(p[1], p[2]) : p \in CommittedEvents(log')}
        /\ Cardinality(DOMAIN token_activities') = Cardinality(CommittedEvents(log'))]_vars

\* C13 witness: a version range has been committed twice and the table holds
\* the rows of its events.
C13_RangeCommittedTwice ==
    /\ Len(log) = 2
    /\ log[1] = log[2]
    /\ token_activities # EmptyMap

\* Every row of the volume table before is in the table after, with a volume
\* that is not lower.
VolumesNotLower(before, after) ==
    \A k \in DOMAIN before : k \in DOMAIN after /\ after[k].volume >= before[k].volume

\* C14: no step (a committed batch, a re-delivery, a failed attempt) removes
\* a row of current_collection_volumes or current_token_volumes or lowers
\* its volume.
C14_VolumeNeverDecreases ==
    [][/\ VolumesNotLower(current_collection_volumes, current_collection_volumes')
       /\ VolumesNotLower(current_token_volumes, current_token_volumes')]_vars

\* C14 witness: a second batch has been added to the stored volume of a
\* collection, which now exceeds the amount of any single trade.
C14_VolumeGrew ==
    /\ Len(log) = 2
    /\ \E k \in DOMAIN current_collection_volumes :
           current_collection_volumes[k].volume > 2

\* C15 (as claimed): the last_transaction_version of every stored
\* current-state row is the version of the transaction whose event wrote the
\* row's columns last.
C15_StoredVersionIsLastApplied ==
    /\ \A k \in DOMAIN current_marketplace_listings :
           current_marketplace_listings[k].last_transaction_version
               = Some(ListingRowVersion(current_marketplace_listings[k]))
    /\ \A k \in DOMAIN current_collection_volumes :
           current_collection_volumes[k].last_transaction_version
               = ListingRowVersion(current_collection_volumes[k])
    /\ \A k \in DOMAIN current_token_volumes :
           current_token_volumes[k].last_transaction_version
               = ListingRowVersion(current_token_volumes[k])

\* C16 (as claimed): for every committed trade event, the token_data_id_hash
\* of its activity row is also the key of the token's listing row, the key
\* of the token's current volume row and the token_data_id_hash of the
\* token volume row of its version.
C16_OneTokenKeyEverywhere ==
    \A p \in CommittedEvents(log) :
        EventVolume(chain[p[1]], p[2]) # None =>
            \E h \in {token_activities[ActivityKeyOf(p[1], p[2])].token_data_id_hash} :
                /\ h \in DOMAIN current_marketplace_listings
                /\ h \in DOMAIN current_token_volumes
                /\ token_volumes[p[1]].token_data_id_hash = h

\* C17 (as claimed): after the first committed batch, collection_volumes and
\* token_volumes hold as many rows as the batch has qualifying trade events.
C17_OneVolumeRowPerTrade ==
    Len(log) = 1 =>
        /\ Cardinality(DOMAIN collection_volumes)
               = Cardinality(Trades(log[1][1]..log[1][2]))
        /\ Cardinality(DOMAIN token_volumes)
               = Cardinality(Trades(log[1][1]..log[1][2]))

\* C18: current_marketplace_listings never holds two rows with the same
\* token_data_id_hash.
C18_OneListingPerToken ==
    \A k1, k2 \in DOMAIN current_marketplace_listings :
        current_marketplace_listings[k1].token_data_id_hash
            = current_marketplace_listings[k2].token_data_id_hash
        => k1 = k2

\* C18 witness: a Buy, whose row has an empty market_address, has been
\* written over the row of a List of the same token.
C18_BuyWrittenOverList ==
    /\ Len(log) = 2
    /\ \E k \in DOMAIN current_marketplace_listings :
           /\ contains(current_marketplace_listings[k].event_type, "Buy")
           /\ current_marketplace_listings[k].market_address = TopazAddress

\* Event i of the user transaction at version v is a bid on a whole
\* collection, or the cancellation of one.
CollectionBidEvent(v, i) ==
    /\ DecodedEvent(v, i)
    /\ TokenEventVariant(chain[v].events[i].typ)
           \in {"TopazCollectionBidEvent", "TopazCancelCollectionBidEvent"}

WrittenRows(l) ==
    IF l.first_ok THEN HandedRows(l.start, l.end)
    ELSE clean_row_sets(HandedRows(l.start, l.end))

\* Row i is the only row of items whose column key_column holds its key.
OnlyRowOfKey(items, key_column, i) ==
    \A j \in 1..Len(items) : items[j][key_column] = items[i][key_column] => j = i

\* The stored listing row after an upsert of incoming row r of the
\* transaction at version v over stored row s, as the claim states it.
ListingAfterUpsert(s, r, v) ==
    IF sql_le(s.last_transaction_version, Some(v))
    THEN [f \in DOMAIN s |->
             IF f = "last_transaction_version" THEN Some(v) ELSE r[f]]
    ELSE s

\* The stored volume row after an upsert of incoming row r over stored row s,
\* as the claim states it.
VolumeAfterUpsert(s, r) ==
    IF s.last_transaction_version <= r.last_transaction_version
    THEN [r EXCEPT !.volume = s.volume + r.volume]
    ELSE s

\* Every incoming listing row that meets a stored row is applied as stated.
ListingUpsertsAsStated(before, after, items) ==
    \A i \in 1..Len(items) :
        (/\ items[i].token_data_id_hash \in DOMAIN before
         /\ OnlyRowOfKey(items, "token_data_id_hash", i))
        => after[items[i].token_data_id_hash]
               = ListingAfterUpsert(before[items[i].token_data_id_hash], items[i],
                                    ListingRowVersion(items[i]))

\* Every incoming volume row that meets a stored row is applied as stated.
VolumeUpsertsAsStated(before, after, items, key_column) ==
    \A i \in 1..Len(items) :
        (/\ items[i][key_column] \in DOMAIN before
         /\ OnlyRowOfKey(items, key_column, i))
        => after[items[i][key_column]]
               = VolumeAfterUpsert(before[items[i][key_column]], items[i])

\* C20: on a primary-key conflict in a current-state table the incoming row
\* is applied exactly when its last_transaction_version is at least the
\* stored one; when applied, every non-key column of the stored row takes the
\* incoming value (market_address and collection_data_id_hash of a listing
\* included), except volume, which becomes stored plus incoming.
C20_UpsertAppliedWhole ==
    [][(calls' = calls + 1 /\ last'.result = "ok") =>
          \E rows \in {WrittenRows(last')} :
              /\ VolumeUpsertsAsStated(current_collection_volumes,
                                       current_collection_volumes',
                                       rows.current_collection_volumes,
                                       "collection_data_id_hash")
              /\ VolumeUpsertsAsStated(current_token_volumes,
                                       current_token_volumes',
                                       rows.current_token_volumes,
                                       "token_data_id_hash")
              /\ ListingUpsertsAsStated(current_marketplace_listings,
                                        current_marketplace_listings',
                                        rows.current_marketplace_listings)]_vars

\* The rows of items whose column key_column holds k.
RowsOfKey(items, key_column, k) ==
    {i \in 1..Len(items) : items[i][key_column] = k}

\* The stored volume of key k after a statement that wrote items: the
\* incoming volume when the row is inserted, stored plus incoming when the
\* row passes the version guard, the stored volume otherwise.
VolumeOfAccepted(before, items, key_column, k) ==
    IF RowsOfKey(items, key_column, k) = {} THEN before[k].volume
    ELSE LET r == items[CHOOSE i \in RowsOfKey(items, key_column, k) : TRUE]
         IN IF k \notin DOMAIN before THEN r.volume
            ELSE IF before[k].last_transaction_version <= r.last_transaction_version
            THEN before[k].volume + r.volume
            ELSE before[k].volume

\* Each stored volume grows by exactly the accepted incoming volume.
VolumesSumAccepted(before, after, items, key_column) ==
    /\ DOMAIN after = DOMAIN before \cup {items[i][key_column] : i \in 1..Len(items)}
    /\ \A k \in DOMAIN after :
           Cardinality(RowsOfKey(items, key_column, k)) <= 1
           => after[k].volume = VolumeOfAccepted(before, items, key_column, k)

\* C21: the stored volume of a current_collection_volumes or
\* current_token_volumes row is the sum of the volumes of the incoming rows
\* of its key that were accepted: a commit sets it to the incoming volume on
\* insert, adds the incoming volume when the row passes the version guard and
\* leaves it alone when the row is rejected or the call does not commit.
C21_VolumeIsSumOfAccepted ==
    [][calls' = calls + 1 =>
          IF last'.result = "ok"
          THEN \E rows \in {WrittenRows(last')} :
                  /\ VolumesSumAccepted(current_collection_volumes,
                                        current_collection_volumes',
                                        rows.current_collection_volumes,
                                        "collection_data_id_hash")
                  /\ VolumesSumAccepted(current_token_volumes,
                                        current_token_volumes',
                                        rows.current_token_volumes,
                                        "token_data_id_hash")
          ELSE /\ current_collection_volumes' = current_collection_volumes
               /\ current_token_volumes' = current_token_volumes]_vars

\* C21 witness: version 2 was committed before version 1, both trade the same
\* token, and the stored row is still the one of version 2: the row of
\* version 1 was rejected.
C21_StaleVolumeRejected ==
    /\ log = <<<<2, 2>>, <<1, 1>>>>
    /\ \E k \in DOMAIN current_token_volumes :
           /\ TokenTrades(k, {1}) # {}
           /\ TokenTrades(k, {2}) # {}
           /\ current_token_volumes[k].last_transaction_version = 2
           /\ current_token_volumes[k].volume > 0

\* The listing row the Listing builder makes of event i of transaction txn
\* alone; None when the event yields none.
listing_of_event(txn, i) ==
    IF txn.type # "user" THEN None
    ELSE LET e == txn.events[i]
             d == from_event(e.typ, e.data)
         IN IF ~d.ok \/ d.value = None THEN None
            ELSE CurrentMarketplaceListing_from_parsed_event(
                     e.typ, e, d.value[1], txn.version, txn.timestamp)

\* listing_of_event tabulated once for the transactions of the chains.
EventListingTable ==
    [txn \in AllTransactions |->
        [i \in 1..Len(txn.events) |-> listing_of_event(txn, i)]]

EventListing(txn, i) ==
    IF txn \in DOMAIN EventListingTable THEN EventListingTable[txn][i]
    ELSE listing_of_event(txn, i)

\* The listing-qualifying events <<version, index>> of the versions vs.
ListingEvents(vs) ==
    {p \in UNION {{<<v, i>> : i \in 1..Len(chain[v].events)} : v \in vs} :
        EventListing(chain[p[1]], p[2]) # None}

\* Event p comes before event q in batch order.
BatchOrder(p, q) == p[1] < q[1] \/ (p[1] = q[1] /\ p[2] < q[2])

\* The listing-qualifying events that no later one of the same token follows.
LastListingEvents(vs) ==
    {p \in ListingEvents(vs) :
        \A q \in ListingEvents(vs) :
            (EventListing(chain[q[1]], q[2])[1].token_data_id_hash
                 = EventListing(chain[p[1]], p[2])[1].token_data_id_hash)
            => ~BatchOrder(p, q)}

\* The rows of items are, one each, the rows built from the events ps.
ListingRowsAreOf(items, ps) ==
    /\ Len(items) = Cardinality(ps)
    /\ Range(items) = {EventListing(chain[p[1]], p[2])[1] : p \in ps}

\* C22: the listing rows handed over for a batch are, one per token, the rows
\* built from the last listing-qualifying event of each token in batch order.
C22_LastListingEventWins ==
    last.result \in {"ok", "err"} =>
        ListingRowsAreOf(HandedRows(last.start, last.end).current_marketplace_listings,
                         LastListingEvents(last.start..last.end))

\* C22 witness: a committed first call whose batch has a trade and then a
\* listing of one token in one transaction; the stored row is the listing's.
C22_ListingAfterTradeStored ==
    /\ Len(log) = 1
    /\ last.first_ok
    /\ \E v \in last.start..last.end :
           /\ chain[v].type = "user"
           /\ Len(chain[v].events) = 2
           /\ chain[v].events[1] = [chain[v].events[1] EXCEPT !.typ = TopazBuyTag]
           /\ chain[v].events[2] = [chain[v].events[2] EXCEPT !.typ = TopazListTag]
           /\ \A w \in last.start..last.end : w <= v
           /\ \E k \in DOMAIN current_marketplace_listings :
                  /\ current_marketplace_listings[k].event_type = TopazListTag
                  /\ current_marketplace_listings[k].price = 5

\* The rows of items are in strictly ascending order of column key_column.
StrictlyAscending(items, key_column) ==
    \A i, j \in 1..Len(items) :
        i < j => str_lt(items[i][key_column], items[j][key_column])

ActivityRowOf(r, e, v) ==
    /\ r.transaction_version = v
    /\ r.event_account_address = e.account_address
    /\ r.event_creation_number = e.creation_number
    /\ r.event_sequence_number = e.sequence_number
    /\ r.transfer_type = e.typ

\* The rows are one per event of events, in order.
OneRowPerEvent(rows, events, v) ==
    /\ Len(rows) = Len(events)
    /\ \A n \in 1..Len(events) : ActivityRowOf(rows[n], events[n], v)

\* What the builder returned for a transaction is as claimed; a builder that
\* panicked on a payload returned nothing at all.
ActivitiesAsClaimed(built, txn) ==
    IF txn.type # "user" THEN ~built.panic /\ built.rows = <<>>
    ELSE built.panic
         \/ OneRowPerEvent(built.rows, SelectSeq(txn.events, Recognized), txn.version)

event_name(tag) ==
    LET hits == {i \in 1..(Len(tag) - 1) : SubSeq(tag, i, i + 1) = "::"}
    IN IF hits = {} THEN tag
       ELSE SubSeq(tag, (CHOOSE i \in hits : \A j \in hits : j <= i) + 2, Len(tag))

\* The substrings of the Listing builder's inclusion filter.
ListingNeedles ==
    {"List", "Delist", "Buy", "Sell", "Change", "CancelList", "Fill", "Send", "Auction"}

\* s holds one of the substrings subs.
contains_any(s, subs) == \E sub \in subs : scan_contains(s, sub)

\* The variants of bids, claims, bids on collections and 0x3 token events.
NeverListed ==
    {"BlueBidEvent", "TopazBidEvent", "TopazCancelBidEvent",
     "BlueClaimCoinsEvent", "BlueClaimTokenEvent", "TopazClaimEvent",
     "TopazCollectionBidEvent", "TopazCancelCollectionBidEvent",
     "MintTokenEvent", "BurnTokenEvent", "MutateTokenPropertyMapEvent",
     "WithdrawTokenEvent", "DepositTokenEvent", "OfferTokenEvent",
     "CancelTokenOfferEvent", "ClaimTokenEvent"}

\* The decoded events <<version, index>> of the user transactions of the chain.
DecodedEvents ==
    {p \in UNION {{<<v, i>> : i \in 1..Len(chain[v].events)} : v \in 1..MaxVersion} :
        DecodedEvent(p[1], p[2])}

IsAddressPrefix(m, tag) ==
    /\ Len(m) + 2 <= Len(tag)
    /\ SubSeq(tag, 1, Len(m) + 2) = m \o "::"
    /\ ~scan_contains(m, "::")

\* The type tag denotes the opening of a listing: List or Auction, and
\* neither CancelList nor Delist.
OpensListing(tag) ==
    /\ scan_contains(tag, "List") \/ scan_contains(tag, "Auction")
    /\ ~scan_contains(tag, "CancelList")
    /\ ~scan_contains(tag, "Delist")

\* C26: the market_address of a row built by the Listing builder is the
\* module-address prefix of the type tag when the tag holds List or Auction
\* and neither CancelList nor Delist, and the empty string for every other
\* qualifying tag.
C26_MarketAddressOfOpeningsOnly ==
    \A p \in DecodedEvents :
        EventListing(chain[p[1]], p[2]) # None =>
            \E r \in {EventListing(chain[p[1]], p[2])[1]} :
                IF OpensListing(r.event_type)
                THEN IsAddressPrefix(r.market_address, r.event_type)
                ELSE r.market_address = ""

\* C26 witness: the row of an auction is stored with the address of its
\* marketplace.
C26_AuctionStoredWithAddress ==
    \E k \in DOMAIN current_marketplace_listings :
        /\ event_name(current_marketplace_listings[k].event_type) = "AuctionEvent"
        /\ current_marketplace_listings[k].market_address
               = "0xd1fd99c1944b84d1670a2536417e997864ad12303d19eac725891691b04d614e"

\* The activity row the Activity Log builder makes of decoded event i of the
\* transaction at version v.
EventActivity(v, i) ==
    TokenActivity_from_parsed_event(
        chain[v].events[i].typ, chain[v].events[i],
        from_event(chain[v].events[i].typ, chain[v].events[i].data).value[1],
        v, chain[v].timestamp)

\* Volume row r carries the volume, the version and the timestamp.
VolumeRowCarries(r, volume, v, timestamp) ==
    /\ r.volume = volume
    /\ r.last_transaction_version = v
    /\ r.inserted_at = timestamp

\* The four rows of one trade carry the volume, the version and the
\* timestamp, and are four.
FourVolumeRows(rows, volume, v, timestamp) ==
    /\ DOMAIN rows = {"current_collection_volume", "collection_volume",
                      "current_token_volume", "token_volume"}
    /\ \A t \in DOMAIN rows : VolumeRowCarries(rows[t], volume, v, timestamp)

PayloadTokenDataId(data) ==
    IF "token_id" \in DOMAIN data THEN data.token_id.token_data_id
    ELSE data.id.token_data_id

\* The identity with empty creator, collection and name.
Placeholder == [creator |-> "", collection |-> "", name |-> ""]

\* Listing row r is keyed by token identity id.
ListingKeyedBy(r, id) ==
    /\ r.token_data_id_hash = hash_str(id.creator \o "::" \o id.collection \o "::" \o id.name)
    /\ r.collection_data_id_hash = hash_str(id.creator \o "::" \o id.collection)
    /\ r.creator_address = id.creator
    /\ r.collection_name = id.collection
    /\ r.name = id.name

\* The four volume rows are keyed by token identity id.
VolumesKeyedBy(rows, id) ==
    /\ rows.current_collection_volume.collection_data_id_hash
           = hash_str(id.creator \o "::" \o id.collection)
    /\ rows.collection_volume.collection_data_id_hash
           = hash_str(id.creator \o "::" \o id.collection)
    /\ rows.current_token_volume.token_data_id_hash
           = id.creator \o "::" \o id.collection \o "::" \o id.name
    /\ rows.token_volume.token_data_id_hash
           = id.creator \o "::" \o id.collection \o "::" \o id.name

\* C28: every row the Listing builder or the Volume builder makes of a
\* decoded event is keyed by the token identity of the event's own payload,
\* never by the placeholder identity with empty creator, collection and name.
C28_RowsKeyedByPayloadToken ==
    \A p \in DecodedEvents :
        \E id \in {IF EventListing(chain[p[1]], p[2]) = None
                       /\ EventVolume(chain[p[1]], p[2]) = None
                    THEN Placeholder
                    ELSE PayloadTokenDataId(chain[p[1]].events[p[2]].data)} :
            /\ EventListing(chain[p[1]], p[2]) # None =>
                   /\ id # Placeholder
                   /\ ListingKeyedBy(EventListing(chain[p[1]], p[2])[1], id)
                   /\ ~ListingKeyedBy(EventListing(chain[p[1]], p[2])[1], Placeholder)
            /\ EventVolume(chain[p[1]], p[2]) # None =>
                   /\ id # Placeholder
                   /\ VolumesKeyedBy(EventVolume(chain[p[1]], p[2])[1], id)
                   /\ ~VolumesKeyedBy(EventVolume(chain[p[1]], p[2])[1], Placeholder)

\* C28 witness: the rows of a Souffl3 trade, whose payload has a market id
\* beside its token id, are stored under the keys of its token.
C28_Souffl3TradeStored ==
    /\ Len(log) > 0
    /\ TokenEventVariant(chain[1].events[1].typ) = "Souffl3BuyTokenEvent"
    /\ to_hash(Token1) \in DOMAIN current_marketplace_listings
    /\ TokenDataIdType_to_string(Token1) \in DOMAIN current_token_volumes
    /\ current_token_volumes[TokenDataIdType_to_string(Token1)].volume = 6

\* Listing row l and activity row a of one event agree.
ListingAgreesWithActivity(l, a) ==
    /\ l.token_data_id_hash = a.token_data_id_hash
    /\ l.collection_data_id_hash = a.collection_data_id_hash
    /\ l.property_version = a.property_version
    /\ l.creator_address = a.creator_address
    /\ l.collection_name = a.collection_name
    /\ l.name = a.name
    /\ l.seller = unwrap_or(a.from_address, "")
    /\ l.amount = a.token_amount
    /\ l.price = unwrap_or(a.coin_amount, 0)

\* C29: the activity row and the listing row of one event agree on token and
\* collection hash, property version, creator address, collection name and
\* token name, and the listing's seller, amount and price are the activity's
\* from_address (empty when absent), token_amount and coin_amount (zero when
\* absent).
C29_ListingAgreesWithActivity ==
    \A p \in DecodedEvents :
        EventListing(chain[p[1]], p[2]) # None =>
            ListingAgreesWithActivity(EventListing(chain[p[1]], p[2])[1],
                                      EventActivity(p[1], p[2]))

\* Some event of the user transaction txn has a type tag of the dispatch
\* table and a payload that does not deserialize.
HasMalformedEvent(txn) ==
    /\ txn.type = "user"
    /\ \E i \in 1..Len(txn.events) :
           /\ Recognized(txn.events[i])
           /\ ~from_event(txn.events[i].typ, txn.events[i].data).ok

\* The transactions of the chains with such an event, found once.
MalformedTransactions == {txn \in AllTransactions : HasMalformedEvent(txn)}

\* Some event of the versions start..end has a type tag of the dispatch table
\* and a payload that does not deserialize.
DecodeFailureIn(start, end) ==
    \E v \in start..end :
        IF chain[v] \in AllTransactions THEN chain[v] \in MalformedTransactions
        ELSE HasMalformedEvent(chain[v])

\* C30: process_transactions writes nothing before the whole batch is decoded
\* and its row sets are built, deduplicated and sorted: a call over a range
\* with an event that fails to decode leaves the six derived tables and the
\* committed ranges exactly as they were, and whenever a call changes a table
\* every event of its range has decoded.
C30_NoWriteBeforeBatchBuilt ==
    [][/\ DecodeFailureIn(last'.start, last'.end) =>
              /\ last'.result = "panic"
              /\ UNCHANGED <<tables, log>>
       /\ tables' # tables => ~DecodeFailureIn(last'.start, last'.end)]_vars

\* C30 witness: after a committed batch, a call over a range whose first
\* transaction decodes and yields rows and whose last transaction holds an
\* event that fails to decode has panicked, and the tables still hold exactly
\* the rows of the committed batch.
C30_FailureAfterDecodedTransaction ==
    /\ last.result = "panic"
    /\ last.start < last.end
    /\ DecodedEvent(last.start, 1)
    /\ derived_rows(chain[last.start]).activities.rows # <<>>
    /\ \E i \in 1..Len(chain[last.end].events) : MalformedEvent(last.end, i)
    /\ log = <<(<<last.start, last.start>>)>>
    /\ DOMAIN token_activities =
           {ActivityKeyOf(last.start, i) : i \in 1..Len(chain[last.start].events)}

====
